---------------------------- MODULE Spec2Model ----------------------------
(***************************************************************************)
(* Model of the analysis services of visualize-process-ai:                 *)
(*   DiagramValidator     (visualize-api/services/DiagramValidator.js)     *)
(*   ProcessAnalyzer      (services/ProcessAnalyzer.js, unnamed/part_003)  *)
(*   RecommendationEngine (visualize-api/services/RecommendationEngine.js) *)
(* Every service method is a pure function of its arguments; a state of    *)
(* the model is one request: the diagram handed in, the extra arguments,   *)
(* the method that was called and what it returned.                        *)
(***************************************************************************)
EXTENDS Integers, Sequences, FiniteSets, TLC

VARIABLES
    visualization,  \* the diagram object of the request
    args,           \* the remaining arguments of the call
    called,         \* the method that has run ("none" before the call)
    result          \* what the method returned

vars == <<visualization, args, called, result>>

(***************************************************************************)
(* JavaScript values.  A property that is absent reads as undefined; it is *)
(* NoValue here.  undefined and the empty string are the falsy strings.    *)
(***************************************************************************)
NoValue == "<undefined>"

Falsy(x) == x \in {NoValue, ""}

NoResult == <<>>

NoArgs == <<>>

\* Array.prototype.filter on a sequence, keeping order.
RECURSIVE FilterSeq(_, _)
FilterSeq(s, keep) ==
    IF s = <<>> THEN <<>>
    ELSE IF Head(s) \in keep THEN <<Head(s)>> \o FilterSeq(Tail(s), keep)
         ELSE FilterSeq(Tail(s), keep)

Range(s) == {s[i] : i \in 1..Len(s)}

\* Array.prototype.indexOf, 1-based (0 when absent).
IndexOf(s, x) ==
    IF x \in Range(s) THEN CHOOSE i \in 1..Len(s) : s[i] = x /\ \A j \in 1..(i - 1) : s[j] # x
    ELSE 0

(***************************************************************************)
(* The diagram.  nodes and edges are what the JSON body carried under      *)
(* those keys: nothing ("absent"), a value that is no array ("object",     *)
(* the empty object {}), or an array ("array") of node / edge objects.     *)
(***************************************************************************)
NullVisualization ==
    [kind |-> "null", id |-> NoValue, name |-> NoValue,
     nodes |-> [kind |-> "absent", items |-> <<>>],
     edges |-> [kind |-> "absent", items |-> <<>>]]

ArrayOf(items) == [kind |-> "array", items |-> items]

AbsentList == [kind |-> "absent", items |-> <<>>]

ObjectList == [kind |-> "object", items |-> <<>>]

Diagram(id, name, nodes, edges) ==
    [kind |-> "object", id |-> id, name |-> name, nodes |-> nodes, edges |-> edges]

\* node.data: absent, or an object whose properties may each be absent.
NoData ==
    [present |-> FALSE, label |-> NoValue, description |-> NoValue,
     elementType |-> NoValue, operation |-> NoValue, table |-> NoValue,
     method |-> NoValue, endpoint |-> NoValue, condition |-> NoValue,
     serviceType |-> NoValue]

EmptyData == [NoData EXCEPT !.present = TRUE]

Node(id, type, positionOk, data) ==
    [id |-> id, type |-> type, position |-> positionOk, data |-> data]

Edge(id, source, target, label) ==
    [id |-> id, source |-> source, target |-> target, label |-> label]

\* String.prototype.toLowerCase().includes(word) on the labels of the model.
LowerIncludes(label, word) ==
    <<label, word>> \in {<<"Handle Error", "error">>, <<"on error", "error">>,
                         <<"ERROR page", "error">>, <<"Send feedback", "feedback">>,
                         <<"Show Confirmation", "confirmation">>,
                         <<"on failure", "fail">>,
                         <<"yes", "yes">>, <<"if not", "no">>}

\* String.prototype.includes(word) on the labels of the model.
Includes(label, word) ==
    <<label, word>> \in {<<"if not", "if">>, <<"when done", "when">>}

\* String.prototype.trim().length === 0 on the names of the model.
TrimIsEmpty(s) == s \in {"", " ", "   "}

(***************************************************************************)
(* Findings.  Every finding carries type and severity; nodeId, edgeId,     *)
(* index (nodeIndex / edgeIndex) and cycle are the optional properties.    *)
(***************************************************************************)
Finding(type, severity, nodeId, edgeId, index) ==
    [type |-> type, severity |-> severity, nodeId |-> nodeId, edgeId |-> edgeId,
     index |-> index, cycle |-> <<>>]

Err(type) == Finding(type, "error", NoValue, NoValue, -1)

Warn(type) == Finding(type, "warning", NoValue, NoValue, -1)

NodeErr(type, nodeId) == Finding(type, "error", nodeId, NoValue, -1)

NodeWarn(type, nodeId) == Finding(type, "warning", nodeId, NoValue, -1)

EdgeErr(type, edgeId) == Finding(type, "error", NoValue, edgeId, -1)

EdgeWarn(type, edgeId) == Finding(type, "warning", NoValue, edgeId, -1)

NodeSuggestion(type, nodeId) == Finding(type, "suggestion", nodeId, NoValue, -1)

Suggestion(type) == Finding(type, "suggestion", NoValue, NoValue, -1)

\* The number of findings of a type in a list.
CountType(findings, type) ==
    Cardinality({i \in 1..Len(findings) : findings[i].type = type})

(***************************************************************************)
(* DiagramValidator: helper methods.                                       *)
(***************************************************************************)
ValidNodeTypes ==
    {"html-element", "database", "api-call", "decision",
     "user-action", "external-service", "start", "end"}

isValidNodeType(type) == type \in ValidNodeTypes

\* edges.filter(edge => edge.source === nodeId)
OutgoingEdges(edges, nodeId) ==
    FilterSeq(edges, {e \in Range(edges) : e.source = nodeId})

\* traverse(nodeId) of findReachableNodes, with the reachable set threaded
\* through the calls; TraverseEach is outgoingEdges.forEach from index i.
RECURSIVE traverse(_, _, _)
RECURSIVE TraverseEach(_, _, _, _)
\* traverse following the first outgoing edge only (find in place of filter).
traverse_FirstEdgeOnly(nodeId, edges, reachable) ==
    IF nodeId \in reachable THEN reachable
    ELSE LET outgoing == OutgoingEdges(edges, nodeId)
         IN  TraverseEach(IF outgoing = <<>> THEN <<>> ELSE <<Head(outgoing)>>,
                          1, edges, reachable \cup {nodeId})

traverse(nodeId, edges, reachable) ==
    IF nodeId \in reachable THEN reachable
    ELSE TraverseEach(OutgoingEdges(edges, nodeId), 1, edges, reachable \cup {nodeId})

TraverseEach(outgoing, i, edges, reachable) ==
    IF i > Len(outgoing) THEN reachable
    ELSE TraverseEach(outgoing, i + 1, edges, traverse(outgoing[i].target, edges, reachable))

RECURSIVE TraverseStarts(_, _, _, _)
TraverseStarts(startNodes, i, edges, reachable) ==
    IF i > Len(startNodes) THEN reachable
    ELSE TraverseStarts(startNodes, i + 1, edges, traverse(startNodes[i].id, edges, reachable))

findReachableNodes(nodes, edges) ==
    LET startNodes == FilterSeq(nodes, {n \in Range(nodes) : n.type = "start"})
    IN  TraverseStarts(startNodes, 1, edges, {})

\* dfs(nodeId) of detectCycles; st holds cycles, visited, recursionStack, path.
RECURSIVE dfs(_, _, _)
RECURSIVE DfsEach(_, _, _, _)
\* dfs testing visited before recursionStack.
dfs_VisitedFirst(nodeId, edges, st) ==
    IF nodeId \in st.visited THEN st
    ELSE IF nodeId \in st.recursionStack
    THEN LET cycleStart == IndexOf(st.path, nodeId)
         IN  [st EXCEPT !.cycles =
                 Append(@, SubSeq(st.path, cycleStart, Len(st.path)) \o <<nodeId>>)]
    ELSE LET entered == [st EXCEPT !.visited = @ \cup {nodeId},
                                   !.recursionStack = @ \cup {nodeId},
                                   !.path = Append(@, nodeId)]
             after == DfsEach(OutgoingEdges(edges, nodeId), 1, edges, entered)
         IN  [after EXCEPT !.recursionStack = @ \ {nodeId},
                           !.path = SubSeq(@, 1, Len(@) - 1)]

dfs(nodeId, edges, st) ==
    IF nodeId \in st.recursionStack
    THEN LET cycleStart == IndexOf(st.path, nodeId)
         IN  [st EXCEPT !.cycles =
                 Append(@, SubSeq(st.path, cycleStart, Len(st.path)) \o <<nodeId>>)]
    ELSE IF nodeId \in st.visited THEN st
    ELSE LET entered == [st EXCEPT !.visited = @ \cup {nodeId},
                                   !.recursionStack = @ \cup {nodeId},
                                   !.path = Append(@, nodeId)]
             after == DfsEach(OutgoingEdges(edges, nodeId), 1, edges, entered)
         IN  [after EXCEPT !.recursionStack = @ \ {nodeId},
                           !.path = SubSeq(@, 1, Len(@) - 1)]

DfsEach(outgoing, i, edges, st) ==
    IF i > Len(outgoing) THEN st
    ELSE DfsEach(outgoing, i + 1, edges, dfs(outgoing[i].target, edges, st))

RECURSIVE DfsNodes(_, _, _, _)
DfsNodes(nodes, i, edges, st) ==
    IF i > Len(nodes) THEN st
    ELSE IF nodes[i].id \in st.visited THEN DfsNodes(nodes, i + 1, edges, st)
    ELSE DfsNodes(nodes, i + 1, edges, dfs(nodes[i].id, edges, st))

detectCycles(nodes, edges) ==
    DfsNodes(nodes, 1, edges,
             [cycles |-> <<>>, visited |-> {}, recursionStack |-> {}, path |-> <<>>]).cycles

calculateValidationScore_NoClamp(errors, warnings, suggestions) ==
    100 - Len(errors) * 20 - Len(warnings) * 5 - Len(suggestions) * 1

calculateValidationScore_ErrorsAdd(errors, warnings, suggestions) ==
    LET score == 100 + Len(errors) * 20 - Len(warnings) * 5 - Len(suggestions) * 1
    IN  IF score > 0 THEN score ELSE 0

calculateValidationScore(errors, warnings, suggestions) ==
    LET score == 100 - Len(errors) * 20 - Len(warnings) * 5 - Len(suggestions) * 1
    IN  IF score > 0 THEN score ELSE 0

\* The sentences of the summary, each with the count it prints.
generateValidationSummary(valid, errors, warnings, suggestions) ==
    IF valid /\ Len(warnings) = 0 /\ Len(suggestions) = 0
    THEN <<[sentence |-> "valid_no_issues", count |-> 0]>>
    ELSE (IF ~valid THEN <<[sentence |-> "errors_to_fix", count |-> Len(errors)]>>
          ELSE <<[sentence |-> "structure_valid", count |-> 0]>>)
         \o (IF Len(warnings) > 0
             THEN <<[sentence |-> "warnings", count |-> Len(warnings)]>> ELSE <<>>)
         \o (IF Len(suggestions) > 0
             THEN <<[sentence |-> "suggestions", count |-> Len(suggestions)]>> ELSE <<>>)

(***************************************************************************)
(* DiagramValidator: the five validation passes.  Each takes the findings  *)
(* collected so far and returns them with its own appended.                *)
(***************************************************************************)
validateBasicStructure(v, errors) ==
    IF v.kind = "null" THEN Append(errors, Err("missing_data"))
    ELSE errors
         \o (IF Falsy(v.id) THEN <<Err("missing_id")>> ELSE <<>>)
         \o (IF Falsy(v.name) \/ TrimIsEmpty(v.name) THEN <<Err("missing_name")>> ELSE <<>>)
         \o (IF v.nodes.kind # "array" THEN <<Err("invalid_nodes")>> ELSE <<>>)
         \o (IF v.edges.kind = "object" THEN <<Err("invalid_edges")>> ELSE <<>>)

\* validateNodeData without the database case of its switch.
validateNodeData_NoDatabaseCase(node, warnings) ==
    LET data == node.data
    IN  warnings
        \o (IF Falsy(data.label) THEN <<NodeWarn("missing_node_label", node.id)>> ELSE <<>>)
        \o (CASE node.type = "html-element" ->
                   IF Falsy(data.elementType)
                   THEN <<NodeWarn("missing_element_type", node.id)>> ELSE <<>>
              [] node.type = "api-call" ->
                   IF Falsy(data.method) \/ Falsy(data.endpoint)
                   THEN <<NodeWarn("incomplete_api_spec", node.id)>> ELSE <<>>
              [] node.type = "decision" ->
                   IF Falsy(data.condition)
                   THEN <<NodeWarn("missing_decision_condition", node.id)>> ELSE <<>>
              [] OTHER -> <<>>)

validateNodeData(node, warnings) ==
    LET data == node.data
    IN  warnings
        \o (IF Falsy(data.label) THEN <<NodeWarn("missing_node_label", node.id)>> ELSE <<>>)
        \o (CASE node.type = "html-element" ->
                   IF Falsy(data.elementType)
                   THEN <<NodeWarn("missing_element_type", node.id)>> ELSE <<>>
              [] node.type = "database" ->
                   IF Falsy(data.operation) \/ Falsy(data.table)
                   THEN <<NodeWarn("incomplete_database_spec", node.id)>> ELSE <<>>
              [] node.type = "api-call" ->
                   IF Falsy(data.method) \/ Falsy(data.endpoint)
                   THEN <<NodeWarn("incomplete_api_spec", node.id)>> ELSE <<>>
              [] node.type = "decision" ->
                   IF Falsy(data.condition)
                   THEN <<NodeWarn("missing_decision_condition", node.id)>> ELSE <<>>
              [] OTHER -> <<>>)

\* ValidateNode stopping at a node's first error: no type check after an id error.
ValidateNode_FirstErrorOnly(node, index, st) ==
    LET idErrors ==
            IF Falsy(node.id)
            THEN <<Finding("missing_node_id", "error", NoValue, NoValue, index)>>
            ELSE IF node.id \in st.nodeIds
                 THEN <<NodeErr("duplicate_node_id", node.id)>> ELSE <<>>
        typeErrors ==
            IF idErrors # <<>> THEN <<>>
            ELSE IF Falsy(node.type) THEN <<NodeErr("missing_node_type", node.id)>>
            ELSE IF ~isValidNodeType(node.type)
                 THEN <<NodeErr("invalid_node_type", node.id)>> ELSE <<>>
        afterPosition ==
            st.warnings
            \o (IF ~node.position THEN <<NodeWarn("missing_position", node.id)>> ELSE <<>>)
    IN  [errors |-> st.errors \o idErrors \o typeErrors,
         warnings |-> IF ~node.data.present
                      THEN Append(afterPosition, NodeWarn("missing_node_data", node.id))
                      ELSE validateNodeData(node, afterPosition),
         nodeIds |-> IF Falsy(node.id) THEN st.nodeIds ELSE st.nodeIds \cup {node.id},
         hasStart |-> st.hasStart \/ node.type = "start",
         hasEnd |-> st.hasEnd \/ node.type = "end"]

\* One turn of nodes.forEach in validateNodes; index is the 0-based index.
ValidateNode(node, index, st) ==
    LET idErrors ==
            IF Falsy(node.id)
            THEN <<Finding("missing_node_id", "error", NoValue, NoValue, index)>>
            ELSE IF node.id \in st.nodeIds
                 THEN <<NodeErr("duplicate_node_id", node.id)>> ELSE <<>>
        typeErrors ==
            IF Falsy(node.type) THEN <<NodeErr("missing_node_type", node.id)>>
            ELSE IF ~isValidNodeType(node.type)
                 THEN <<NodeErr("invalid_node_type", node.id)>> ELSE <<>>
        positionWarnings ==
            IF ~node.position THEN <<NodeWarn("missing_position", node.id)>> ELSE <<>>
        afterPosition == st.warnings \o positionWarnings
    IN  [errors |-> st.errors \o idErrors \o typeErrors,
         warnings |-> IF ~node.data.present
                      THEN Append(afterPosition, NodeWarn("missing_node_data", node.id))
                      ELSE validateNodeData(node, afterPosition),
         nodeIds |-> IF Falsy(node.id) THEN st.nodeIds ELSE st.nodeIds \cup {node.id},
         hasStart |-> st.hasStart \/ node.type = "start",
         hasEnd |-> st.hasEnd \/ node.type = "end"]

RECURSIVE ValidateNodesFrom(_, _, _)
ValidateNodesFrom(nodes, i, st) ==
    IF i > Len(nodes) THEN st
    ELSE ValidateNodesFrom(nodes, i + 1, ValidateNode(nodes[i], i - 1, st))

\* validateNodes without its nodes.length === 0 check.
validateNodes_NoEmptyCheck(nodes, errors, warnings) ==
    LET st == ValidateNodesFrom(nodes, 1,
                  [errors |-> errors, warnings |-> warnings, nodeIds |-> {},
                   hasStart |-> FALSE, hasEnd |-> FALSE])
    IN  [errors |-> st.errors,
         warnings |-> st.warnings
             \o (IF ~st.hasStart THEN <<Warn("missing_start_node")>> ELSE <<>>)
             \o (IF ~st.hasEnd THEN <<Warn("missing_end_node")>> ELSE <<>>)]

validateNodes(nodes, errors, warnings) ==
    IF Len(nodes) = 0
    THEN [errors |-> Append(errors, Err("empty_diagram")), warnings |-> warnings]
    ELSE LET st == ValidateNodesFrom(nodes, 1,
                       [errors |-> errors, warnings |-> warnings, nodeIds |-> {},
                        hasStart |-> FALSE, hasEnd |-> FALSE])
         IN  [errors |-> st.errors,
              warnings |-> st.warnings
                  \o (IF ~st.hasStart THEN <<Warn("missing_start_node")>> ELSE <<>>)
                  \o (IF ~st.hasEnd THEN <<Warn("missing_end_node")>> ELSE <<>>)]

\* new Set(nodes.map(n => n.id).filter(id => id))
TruthyNodeIds(nodes) == {n.id : n \in {m \in Range(nodes) : ~Falsy(m.id)}}

\* One turn of edges.forEach in validateEdges; index is the 0-based index.
ValidateEdge(edge, index, nodeIds, st) ==
    LET idErrors ==
            IF Falsy(edge.id)
            THEN <<Finding("missing_edge_id", "error", NoValue, NoValue, index)>>
            ELSE IF edge.id \in st.edgeIds
                 THEN <<EdgeErr("duplicate_edge_id", edge.id)>> ELSE <<>>
        sourceErrors ==
            IF Falsy(edge.source) THEN <<EdgeErr("missing_edge_source", edge.id)>>
            ELSE IF edge.source \notin nodeIds
                 THEN <<EdgeErr("invalid_edge_source", edge.id)>> ELSE <<>>
        targetErrors ==
            IF Falsy(edge.target) THEN <<EdgeErr("missing_edge_target", edge.id)>>
            ELSE IF edge.target \notin nodeIds
                 THEN <<EdgeErr("invalid_edge_target", edge.id)>> ELSE <<>>
    IN  [errors |-> st.errors \o idErrors \o sourceErrors \o targetErrors,
         warnings |-> IF edge.source = edge.target
                      THEN Append(st.warnings, EdgeWarn("self_loop", edge.id))
                      ELSE st.warnings,
         edgeIds |-> IF Falsy(edge.id) THEN st.edgeIds ELSE st.edgeIds \cup {edge.id}]

RECURSIVE ValidateEdgesFrom(_, _, _, _)
ValidateEdgesFrom(edges, i, nodeIds, st) ==
    IF i > Len(edges) THEN st
    ELSE ValidateEdgesFrom(edges, i + 1, nodeIds, ValidateEdge(edges[i], i - 1, nodeIds, st))

validateEdges_NoTargetCheck(edges, nodes, errors, warnings) ==
    IF Len(edges) = 0
    THEN [errors |-> errors, warnings |-> Append(warnings, Warn("no_connections"))]
    ELSE LET st == ValidateEdgesFrom(edges, 1,
                       TruthyNodeIds(nodes) \cup {e.target : e \in Range(edges)},
                       [errors |-> errors, warnings |-> warnings, edgeIds |-> {}])
         IN  [errors |-> st.errors, warnings |-> st.warnings]

validateEdges(edges, nodes, errors, warnings) ==
    IF Len(edges) = 0
    THEN [errors |-> errors, warnings |-> Append(warnings, Warn("no_connections"))]
    ELSE LET st == ValidateEdgesFrom(edges, 1, TruthyNodeIds(nodes),
                       [errors |-> errors, warnings |-> warnings, edgeIds |-> {}])
         IN  [errors |-> st.errors, warnings |-> st.warnings]

\* nodes.filter(pred).forEach(node => warnings.push({type, nodeId: node.id}))
RECURSIVE NodeWarnings(_, _, _)
NodeWarnings(nodes, keep, type) ==
    IF nodes = <<>> THEN <<>>
    ELSE (IF Head(nodes) \in keep THEN <<NodeWarn(type, Head(nodes).id)>> ELSE <<>>)
         \o NodeWarnings(Tail(nodes), keep, type)

RECURSIVE CycleWarnings(_)
CycleWarnings(cycles) ==
    IF cycles = <<>> THEN <<>>
    ELSE <<[Warn("potential_cycle") EXCEPT !.cycle = Head(cycles)]>>
         \o CycleWarnings(Tail(cycles))

validateFlow(nodes, edges, errors, warnings) ==
    LET hasIncoming(node) == \E e \in Range(edges) : e.target = node.id
        hasOutgoing(node) == \E e \in Range(edges) : e.source = node.id
        isolatedNodes == {n \in Range(nodes) :
                            /\ ~hasIncoming(n) /\ ~hasOutgoing(n)
                            /\ n.type # "start" /\ n.type # "end"}
        reachableNodes == findReachableNodes(nodes, edges)
        unreachableNodes == {n \in Range(nodes) :
                               n.id \notin reachableNodes /\ n.type # "start"}
        deadEnds == {n \in Range(nodes) : ~hasOutgoing(n) /\ n.type # "end"}
    IN  [errors |-> errors,
         warnings |-> warnings
             \o NodeWarnings(nodes, isolatedNodes, "isolated_node")
             \o NodeWarnings(nodes, unreachableNodes, "unreachable_node")
             \o NodeWarnings(nodes, deadEnds, "dead_end")
             \o CycleWarnings(detectCycles(nodes, edges))]

\* One turn of nodes.forEach in validateSemantics.
SemanticsOfNode(node, edges, st) ==
    [warnings |->
         IF node.type = "decision" /\ Len(OutgoingEdges(edges, node.id)) < 2
         THEN Append(st.warnings, NodeWarn("insufficient_decision_branches", node.id))
         ELSE st.warnings,
     suggestions |->
         st.suggestions
         \o (IF node.type = "database" /\ node.data.present /\ Falsy(node.data.operation)
             THEN <<NodeSuggestion("missing_db_operation", node.id)>> ELSE <<>>)
         \o (IF /\ node.type = "api-call" /\ node.data.present
                /\ (Falsy(node.data.method) \/ Falsy(node.data.endpoint))
             THEN <<NodeSuggestion("incomplete_api_spec", node.id)>> ELSE <<>>)]

RECURSIVE SemanticsFrom(_, _, _, _)
SemanticsFrom(nodes, i, edges, st) ==
    IF i > Len(nodes) THEN st
    ELSE SemanticsFrom(nodes, i + 1, edges, SemanticsOfNode(nodes[i], edges, st))

\* const { nodes = [], edges = [] } = visualization: the default applies to
\* an absent property only.
validateSemantics(v, warnings, suggestions) ==
    LET nodes == v.nodes.items
        edges == v.edges.items
        st == SemanticsFrom(nodes, 1, edges,
                            [warnings |-> warnings, suggestions |-> suggestions])
        hasErrorHandling ==
            \E n \in Range(nodes) :
                \/ (n.data.present /\ LowerIncludes(n.data.label, "error"))
                \/ \E e \in Range(edges) : LowerIncludes(e.label, "error")
        hasAuthNode ==
            \E n \in Range(nodes) :
                n.type = "external-service" /\ n.data.present /\ n.data.serviceType = "auth"
        hasUserInput ==
            \E n \in Range(nodes) : n.type = "html-element" \/ n.type = "user-action"
    IN  [warnings |-> st.warnings,
         suggestions |-> st.suggestions
             \o (IF ~hasErrorHandling THEN <<Suggestion("missing_error_handling")>> ELSE <<>>)
             \o (IF hasUserInput /\ ~hasAuthNode
                 THEN <<Suggestion("missing_authentication")>> ELSE <<>>)]

isValid_OffByOne(errors) == Len(errors) <= 1

\* const isValid = errors.length === 0
isValid(errors) == Len(errors) = 0

\* The catch block of validateDiagram.
ValidationFailed(errors, warnings, suggestions) ==
    [isValid |-> FALSE,
     errors |-> Append(errors, Err("validation_error")),
     warnings |-> warnings,
     suggestions |-> suggestions,
     score |-> 0,
     summary |-> <<[sentence |-> "internal_error", count |-> 0]>>]

(***************************************************************************)
(* validateDiagram.  Reading a property of null throws, and so does        *)
(* forEach on a nodes / edges value that is no array; the throw lands in   *)
(* the catch block with the findings pushed up to then.                    *)
(***************************************************************************)
validateDiagram(v) ==
    LET e1 == validateBasicStructure(v, <<>>)
    IN  IF v.kind = "null" \/ v.nodes.kind = "object"
        THEN ValidationFailed(e1, <<>>, <<>>)
        ELSE
    LET s2 == validateNodes(v.nodes.items, e1, <<>>)
    IN  IF v.edges.kind = "object"
        THEN ValidationFailed(s2.errors, s2.warnings, <<>>)
        ELSE
    LET s3 == validateEdges(v.edges.items, v.nodes.items, s2.errors, s2.warnings)
        s4 == validateFlow(v.nodes.items, v.edges.items, s3.errors, s3.warnings)
        s5 == validateSemantics(v, s4.warnings, <<>>)
        errors == s4.errors
        valid == isValid(errors)
    IN  [isValid |-> valid,
         errors |-> errors,
         warnings |-> s5.warnings,
         suggestions |-> s5.suggestions,
         score |-> calculateValidationScore(errors, s5.warnings, s5.suggestions),
         summary |-> generateValidationSummary(valid, errors, s5.warnings, s5.suggestions)]

(***************************************************************************)
(* Requests to validateDiagram.                                            *)
(***************************************************************************)
MaxValNodes == 2

MaxValEdges == 2

SeqsUpTo(S, n) == UNION {[1..k -> S] : k \in 0..n}

Labelled(label) == [EmptyData EXCEPT !.label = label]

\* type, position and data of the nodes handed in.
NodeKinds ==
    { <<"start", TRUE, NoData>>,
      <<"end", TRUE, Labelled("Done")>>,
      <<NoValue, FALSE, EmptyData>>,
      <<"widget", TRUE, Labelled("Load")>>,
      <<"database", TRUE, EmptyData>>,
      <<"decision", TRUE, [Labelled("Check") EXCEPT !.condition = "x > 0"]>>,
      <<"api-call", TRUE, [Labelled("Handle Error") EXCEPT !.method = "GET"]>>,
      <<"html-element", TRUE, [Labelled("Form") EXCEPT !.elementType = "form"]>> }

ValNodes == {Node(id, k[1], k[2], k[3]) : id \in {NoValue, "a", "b"}, k \in NodeKinds}

EndpointValues == {NoValue, "a", "b", "z"}

ValEdges ==
    {Edge("e1", s, t, NoValue) : s \in EndpointValues, t \in EndpointValues}
    \cup {Edge(NoValue, "a", "b", NoValue), Edge("e2", "a", "b", "on error")}

\* Every node list up to MaxValNodes, each with a few edge lists.
NodeFamily ==
    {Diagram("diag-1", "Flow", ArrayOf(ns), ArrayOf(es)) :
        ns \in SeqsUpTo(ValNodes, MaxValNodes),
        es \in { <<>>,
                 <<Edge("e1", "a", "b", NoValue)>>,
                 <<Edge("e1", "a", "z", NoValue), Edge("e1", "z", "b", NoValue)>>,
                 <<Edge("e1", "b", "b", NoValue)>> }}

\* Every edge list up to MaxValEdges, each with a few node lists.
EdgeFamily ==
    {Diagram("diag-1", "Flow", ArrayOf(ns), ArrayOf(es)) :
        ns \in { <<Node("a", "start", TRUE, NoData), Node("b", "end", TRUE, Labelled("Done"))>>,
                 <<Node("a", "start", TRUE, NoData), Node("a", "widget", TRUE, Labelled("Load"))>>,
                 <<Node("a", "database", TRUE, EmptyData)>> },
        es \in SeqsUpTo(ValEdges, MaxValEdges)}

\* The diagram of the scenario: a start node "1", a database node "2" whose
\* data is {}, the edge e1 from "1" to "2"; neither node has a position; the
\* diagram with and without an id and a name.
ScenarioNodes ==
    <<Node("1", "start", FALSE, NoData), Node("2", "database", FALSE, EmptyData)>>

ScenarioEdges == <<Edge("e1", "1", "2", NoValue)>>

ScenarioFamily ==
    {Diagram(id, name, ArrayOf(ScenarioNodes), ArrayOf(ScenarioEdges)) :
        id \in {NoValue, "diag-1"}, name \in {NoValue, " ", "Flow"}}

\* The shapes of the diagram object itself.
ShapeFamily ==
    {NullVisualization}
    \cup {Diagram(id, name, ns, es) :
            id \in {NoValue, "diag-1"},
            name \in {NoValue, " ", "Flow"},
            ns \in {AbsentList, ObjectList, ArrayOf(<<>>),
                    ArrayOf(<<Node("a", "start", TRUE, NoData)>>)},
            es \in {AbsentList, ObjectList, ArrayOf(<<>>),
                    ArrayOf(<<Edge("e1", "a", "a", NoValue)>>),
                    ArrayOf(<<Edge("e1", "a", "z", NoValue)>>)}}

ValidationInputs == NodeFamily \cup EdgeFamily \cup ShapeFamily \cup ScenarioFamily

InitValidate ==
    /\ visualization \in ValidationInputs
    /\ args = NoArgs
    /\ called = "none"
    /\ result = NoResult

\* const validation = await validator.validateDiagram(visualization)
ValidateDiagram ==
    /\ called = "none"
    /\ called' = "validateDiagram"
    /\ result' = validateDiagram(visualization)
    /\ UNCHANGED <<visualization, args>>

NextValidate == ValidateDiagram

SpecValidate == InitValidate /\ [][NextValidate]_vars

Validated == called = "validateDiagram"

(***************************************************************************)
(* Claims about validateDiagram, checked under SpecValidate.               *)
(***************************************************************************)
NodesGiven == visualization.nodes.items

EdgesGiven == visualization.edges.items

EmptyNodesList ==
    /\ visualization.kind = "object"
    /\ visualization.nodes.kind = "array"
    /\ NodesGiven = <<>>

\* C1 as stated: a diagram whose nodes list is empty gets isValid = false and
\* exactly one error, empty_diagram, whatever its edges, id and name are.
C1_AsStated ==
    (Validated /\ EmptyNodesList) =>
        /\ ~result.isValid
        /\ Len(result.errors) = 1
        /\ result.errors[1].type = "empty_diagram"

\* C1 (amended): a diagram whose nodes list is empty gets isValid = false and
\* exactly one empty_diagram error; that error is the only error when the
\* diagram has an id, a non-blank name and no edges value other than an
\* absent or empty list.
C1_EmptyDiagram ==
    (Validated /\ EmptyNodesList) =>
        /\ ~result.isValid
        /\ CountType(result.errors, "empty_diagram") = 1
        /\ (/\ ~Falsy(visualization.id)
            /\ ~Falsy(visualization.name) /\ ~TrimIsEmpty(visualization.name)
            /\ visualization.edges.kind # "object"
            /\ EdgesGiven = <<>>)
           => result.errors = <<Err("empty_diagram")>>

C1_Witness ==
    /\ Validated /\ EmptyNodesList
    /\ result.errors = <<Err("empty_diagram")>>

\* The diagram is a graph: nodes and edges are lists (or left out), so that
\* validation gets as far as the edges.
ListsGiven ==
    /\ visualization.kind = "object"
    /\ visualization.nodes.kind # "object"
    /\ visualization.edges.kind # "object"

\* The ids of the edges, in order, whose endpoint (source or target) is
\* present and is the id of no node.
RECURSIVE DanglingEdgeIds(_, _, _)
DanglingEdgeIds(edges, nodeIds, end) ==
    IF edges = <<>> THEN <<>>
    ELSE (IF ~Falsy(Head(edges)[end]) /\ Head(edges)[end] \notin nodeIds
          THEN <<Head(edges).id>> ELSE <<>>)
         \o DanglingEdgeIds(Tail(edges), nodeIds, end)

\* The edgeId of each error of a type, in order.
RECURSIVE EdgeIdsOfType(_, _)
EdgeIdsOfType(findings, type) ==
    IF findings = <<>> THEN <<>>
    ELSE (IF Head(findings).type = type THEN <<Head(findings).edgeId>> ELSE <<>>)
         \o EdgeIdsOfType(Tail(findings), type)

IdsOfNodesGiven == {NodesGiven[i].id : i \in 1..Len(NodesGiven)} \ {NoValue, ""}

\* C2: validateDiagram reports invalid_edge_source (invalid_edge_target) for
\* an edge exactly when the edge's source (target) is present and is the id of
\* no node: the errors of that type are, in order, one per such edge.
C2_DanglingEndpoints ==
    (Validated /\ ListsGiven) =>
        /\ EdgeIdsOfType(result.errors, "invalid_edge_source")
             = DanglingEdgeIds(EdgesGiven, IdsOfNodesGiven, "source")
        /\ EdgeIdsOfType(result.errors, "invalid_edge_target")
             = DanglingEdgeIds(EdgesGiven, IdsOfNodesGiven, "target")

C2_Witness ==
    /\ Validated /\ ListsGiven
    /\ Len(EdgesGiven) = 2
    /\ CountType(result.errors, "invalid_edge_target") = 1
    /\ CountType(result.errors, "invalid_edge_source") = 0
    /\ \E i \in 1..2 : EdgesGiven[i].source \in IdsOfNodesGiven
                       /\ EdgesGiven[i].target \in IdsOfNodesGiven

\* C3: in every result isValid is true exactly when the errors list is empty,
\* whatever the number of warnings and suggestions.
C3_ValidIffNoErrors ==
    Validated => (result.isValid <=> result.errors = <<>>)

C3_Witness ==
    /\ Validated
    /\ result.isValid
    /\ Len(result.warnings) >= 3
    /\ Len(result.suggestions) >= 1

ScoreFormula(r) ==
    LET score == 100 - 20 * Len(r.errors) - 5 * Len(r.warnings) - Len(r.suggestions)
    IN  IF score > 0 THEN score ELSE 0

InternalFailure == CountType(result.errors, "validation_error") > 0

\* C4 as stated: in every result, those produced after an internal failure
\* included, score = max(0, 100 - 20 errors - 5 warnings - suggestions).
C4_AsStated ==
    Validated => result.score = ScoreFormula(result)

\* C4 (amended): a result of a validation that ran to its end has
\* score = max(0, 100 - 20 errors - 5 warnings - suggestions) of its own lists;
\* a result produced after an internal failure has score 0.
C4_Score ==
    Validated =>
        IF InternalFailure THEN result.score = 0
        ELSE result.score = ScoreFormula(result)

C4_Witness ==
    /\ Validated /\ ~InternalFailure
    /\ 100 - 20 * Len(result.errors) - 5 * Len(result.warnings) - Len(result.suggestions) < 0
    /\ result.score = 0

\* The nodes that repeat the id of an earlier node, the nodes whose type is
\* given and is none of the eight, the edge endpoints that name no node.
RepeatedIdCount ==
    Cardinality({i \in 1..Len(NodesGiven) :
                   /\ ~Falsy(NodesGiven[i].id)
                   /\ \E j \in 1..(i - 1) : NodesGiven[j].id = NodesGiven[i].id})

UnknownTypeCount ==
    Cardinality({i \in 1..Len(NodesGiven) :
                   ~Falsy(NodesGiven[i].type) /\ NodesGiven[i].type \notin ValidNodeTypes})

DanglingEndpointCount ==
    Len(DanglingEdgeIds(EdgesGiven, IdsOfNodesGiven, "source"))
    + Len(DanglingEdgeIds(EdgesGiven, IdsOfNodesGiven, "target"))

GraphGiven ==
    /\ visualization.kind = "object"
    /\ visualization.nodes.kind = "array" /\ NodesGiven # <<>>
    /\ visualization.edges.kind = "array"

\* C6: for a diagram with a non-empty nodes array and an edges array, one call
\* reports every duplicate id, every unknown type and every dangling endpoint
\* (k duplicate_node_id, m invalid_node_type, d invalid_edge_source /
\* invalid_edge_target errors) and no validation_error.
C6_Accumulated ==
    (Validated /\ GraphGiven) =>
        /\ CountType(result.errors, "duplicate_node_id") = RepeatedIdCount
        /\ CountType(result.errors, "invalid_node_type") = UnknownTypeCount
        /\ CountType(result.errors, "invalid_edge_source")
             + CountType(result.errors, "invalid_edge_target") = DanglingEndpointCount
        /\ CountType(result.errors, "validation_error") = 0

C6_Witness ==
    /\ Validated /\ GraphGiven
    /\ RepeatedIdCount >= 1 /\ UnknownTypeCount >= 1 /\ DanglingEndpointCount >= 1
    /\ CountType(result.errors, "duplicate_node_id") >= 1
    /\ CountType(result.errors, "invalid_node_type") >= 1
    /\ CountType(result.errors, "invalid_edge_target") >= 1


(***************************************************************************)
(* ProcessAnalyzer.findPathsBetweenNodes.  Every recursive call gets its   *)
(* own copy of visited and currentPath.                                    *)
(***************************************************************************)
RECURSIVE findPathsBetweenNodes(_, _, _, _, _, _)
RECURSIVE PathsEach(_, _, _, _, _, _, _)
\* findPathsBetweenNodes returning the end node without the path that led to it.
findPathsBetweenNodes_NoPrefix(startId, endId, nodes, edges, visited, currentPath) ==
    IF startId \in visited THEN <<>>
    ELSE IF startId = endId THEN << <<startId>> >>
    ELSE PathsEach(OutgoingEdges(edges, startId), 1, endId, nodes, edges,
                   visited \cup {startId}, Append(currentPath, startId))

findPathsBetweenNodes(startId, endId, nodes, edges, visited, currentPath) ==
    IF startId \in visited THEN <<>>
    ELSE IF startId = endId THEN << Append(currentPath, startId) >>
    ELSE PathsEach(OutgoingEdges(edges, startId), 1, endId, nodes, edges,
                   visited \cup {startId}, Append(currentPath, startId))

PathsEach(outgoing, i, endId, nodes, edges, visited, currentPath) ==
    IF i > Len(outgoing) THEN <<>>
    ELSE findPathsBetweenNodes(outgoing[i].target, endId, nodes, edges, visited, currentPath)
         \o PathsEach(outgoing, i + 1, endId, nodes, edges, visited, currentPath)

(***************************************************************************)
(* Requests to the traversals: graphs over three node ids with every edge  *)
(* list up to MaxGraphEdges, and the graphs the specification names.       *)
(***************************************************************************)
MaxGraphEdges == 3

Ids == {"a", "b", "c"}

PlainNode(id, type) == Node(id, type, TRUE, Labelled("Step"))

PlainEdge(source, target) == Edge("e", source, target, NoValue)

GraphEdgeLists == SeqsUpTo({PlainEdge(s, t) : s \in Ids, t \in Ids}, MaxGraphEdges)

\* Every order of the three nodes.
NodeOrders ==
    {ns \in [1..3 -> {PlainNode(id, "database") : id \in Ids}] :
        \A i, j \in 1..3 : i # j => ns[i] # ns[j]}

\* a, b, c in that order, any of them left out, any of them a start node.
TypedNodeLists ==
    LET choices == {"start", "database", "left out"}
        all(ta, tb, tc) == <<PlainNode("a", ta), PlainNode("b", tb), PlainNode("c", tc)>>
    IN  {FilterSeq(all(ta, tb, tc), {n \in Range(all(ta, tb, tc)) : n.type # "left out"}) :
            ta \in choices, tb \in choices, tc \in choices}

\* start -> a -> b -> end
ChainDiagram ==
    Diagram("chain", "Chain",
            ArrayOf(<<PlainNode("start", "start"), PlainNode("a", "database"),
                      PlainNode("b", "database"), PlainNode("end", "end")>>),
            ArrayOf(<<PlainEdge("start", "a"), PlainEdge("a", "b"), PlainEdge("b", "end")>>))

\* a -> b, a -> c, b -> d, c -> d
DiamondDiagram ==
    Diagram("diamond", "Diamond",
            ArrayOf(<<PlainNode("a", "start"), PlainNode("b", "database"),
                      PlainNode("c", "database"), PlainNode("d", "end")>>),
            ArrayOf(<<PlainEdge("a", "b"), PlainEdge("a", "c"),
                      PlainEdge("b", "d"), PlainEdge("c", "d")>>))

\* a -> b, b -> c, c -> a
TriangleEdges == <<PlainEdge("a", "b"), PlainEdge("b", "c"), PlainEdge("c", "a")>>

GraphOf(ns, es) == Diagram("diag-1", "Flow", ArrayOf(ns), ArrayOf(es))

InitReach ==
    /\ visualization \in
           {GraphOf(ns, es) : ns \in TypedNodeLists, es \in GraphEdgeLists}
           \cup {ChainDiagram, DiamondDiagram}
    /\ args = NoArgs
    /\ called = "none"
    /\ result = NoResult

\* this.findReachableNodes(nodes, edges)
FindReachableNodes ==
    /\ called = "none"
    /\ called' = "findReachableNodes"
    /\ result' = findReachableNodes(visualization.nodes.items, visualization.edges.items)
    /\ UNCHANGED <<visualization, args>>

NextReach == FindReachableNodes

SpecReach == InitReach /\ [][NextReach]_vars

InitCycles ==
    /\ visualization \in
           {GraphOf(ns, es) : ns \in NodeOrders, es \in GraphEdgeLists}
           \cup {ChainDiagram, DiamondDiagram}
    /\ args = NoArgs
    /\ called = "none"
    /\ result = NoResult

\* this.detectCycles(nodes, edges)
DetectCycles ==
    /\ called = "none"
    /\ called' = "detectCycles"
    /\ result' = detectCycles(visualization.nodes.items, visualization.edges.items)
    /\ UNCHANGED <<visualization, args>>

NextCycles == DetectCycles

SpecCycles == InitCycles /\ [][NextCycles]_vars

EndpointsOf(v) ==
    {v.nodes.items[i].id : i \in 1..Len(v.nodes.items)}

InitPaths ==
    /\ visualization \in
           {GraphOf(<<PlainNode("a", "start"), PlainNode("b", "database"),
                      PlainNode("c", "end")>>, es) : es \in GraphEdgeLists}
           \cup {ChainDiagram, DiamondDiagram}
    /\ args \in [startId : EndpointsOf(visualization), endId : EndpointsOf(visualization)]
    /\ called = "none"
    /\ result = NoResult

\* this.findPathsBetweenNodes(startNode.id, endNode.id, nodes, edges)
FindPathsBetweenNodes ==
    /\ called = "none"
    /\ called' = "findPathsBetweenNodes"
    /\ result' = findPathsBetweenNodes(args.startId, args.endId,
                                       visualization.nodes.items,
                                       visualization.edges.items, {}, <<>>)
    /\ UNCHANGED <<visualization, args>>

NextPaths == FindPathsBetweenNodes

SpecPaths == InitPaths /\ [][NextPaths]_vars

(***************************************************************************)
(* Requests to calculateValidationScore: lists of up to MaxFindings        *)
(* findings of each severity.                                              *)
(***************************************************************************)
MaxFindings == 6

FindingLists(f) == {[i \in 1..n |-> f] : n \in 0..MaxFindings}

InitScore ==
    /\ visualization = NullVisualization
    /\ args \in [errors : FindingLists(Err("missing_id")),
                 warnings : FindingLists(Warn("no_connections")),
                 suggestions : FindingLists(Suggestion("missing_error_handling"))]
    /\ called = "none"
    /\ result = NoResult

\* this.calculateValidationScore(errors, warnings, suggestions)
CalculateValidationScore ==
    /\ called = "none"
    /\ called' = "calculateValidationScore"
    /\ result' = calculateValidationScore(args.errors, args.warnings, args.suggestions)
    /\ UNCHANGED <<visualization, args>>

NextScore == CalculateValidationScore

SpecScore == InitScore /\ [][NextScore]_vars

(***************************************************************************)
(* Claims about calculateValidationScore, checked under SpecScore.         *)
(***************************************************************************)
Scored == called = "calculateValidationScore"

\* C5: the score lies in 0..100, and one more error, warning or suggestion
\* never raises it.
C5_ScoreMonotoneClamped ==
    Scored =>
        /\ result \in 0..100
        /\ calculateValidationScore(Append(args.errors, Err("missing_name")),
                                    args.warnings, args.suggestions) <= result
        /\ calculateValidationScore(args.errors,
                                    Append(args.warnings, Warn("dead_end")),
                                    args.suggestions) <= result
        /\ calculateValidationScore(args.errors, args.warnings,
                                    Append(args.suggestions,
                                           Suggestion("missing_authentication"))) <= result

C5_Witness ==
    /\ Scored
    /\ Len(args.errors) = 5 /\ Len(args.warnings) = 2 /\ Len(args.suggestions) = 1
    /\ result = 0
    /\ calculateValidationScore(<<>>, args.warnings, args.suggestions) = 89

(***************************************************************************)
(* Claims about the traversals.                                            *)
(***************************************************************************)
GraphEdges == visualization.edges.items

GraphNodes == visualization.nodes.items

Successors(S) == {GraphEdges[i].target : i \in {j \in 1..Len(GraphEdges) : GraphEdges[j].source \in S}}

\* The least set that holds S and the target of every edge whose source it holds.
RECURSIVE ForwardClosure(_)
ForwardClosure(S) ==
    IF Successors(S) \subseteq S THEN S ELSE ForwardClosure(S \cup Successors(S))

StartIds == {GraphNodes[i].id : i \in {j \in 1..Len(GraphNodes) : GraphNodes[j].type = "start"}}

\* C7: findReachableNodes returns exactly the ids reachable by following edges
\* forward, zero or more steps, from the start-typed nodes; for the chain
\* start -> a -> b -> end that is {start, a, b, end}.
C7_Reachable ==
    (called = "findReachableNodes") =>
        /\ result = ForwardClosure(StartIds)
        /\ visualization = ChainDiagram => result = {"start", "a", "b", "end"}

C7_Witness ==
    /\ called = "findReachableNodes"
    /\ Cardinality(StartIds) = 1
    /\ Len(GraphNodes) = 2
    /\ Cardinality(result) = 2
    /\ result # EndpointsOf(visualization)
    /\ \E i \in 1..Len(GraphEdges) : GraphEdges[i].target \notin result

IsEdge(x, y) == \E i \in 1..Len(GraphEdges) : GraphEdges[i].source = x /\ GraphEdges[i].target = y

\* Some node reaches itself along one or more edges.
HasDirectedCycle ==
    \E x \in {GraphEdges[i].source : i \in 1..Len(GraphEdges)} :
        x \in ForwardClosure(Successors({x}))

IsClosedWalk(cycle) ==
    /\ Len(cycle) >= 2
    /\ cycle[1] = cycle[Len(cycle)]
    /\ \A k \in 1..(Len(cycle) - 1) : IsEdge(cycle[k], cycle[k + 1])

\* C8: on a graph whose edge endpoints are all node ids, detectCycles returns
\* a non-empty list exactly when the graph has a directed cycle (self-loops
\* included); every cycle reported is a closed walk along edges; on
\* a -> b, b -> c, c -> a the one cycle reported has the node set {a, b, c}.
C8_Cycles ==
    (called = "detectCycles") =>
        /\ (result # <<>>) <=> HasDirectedCycle
        /\ \A k \in 1..Len(result) : IsClosedWalk(result[k])
        /\ Range(GraphEdges) = Range(TriangleEdges) =>
               \A k \in 1..Len(result) : Range(result[k]) = {"a", "b", "c"}

C8_Witness ==
    /\ called = "detectCycles"
    /\ GraphEdges = TriangleEdges
    /\ GraphNodes[1].id = "b"
    /\ result = << <<"b", "c", "a", "b">> >>

\* The sequences of ids without repetition that lead from x to y along edges.
SimplePaths(x, y) ==
    LET ids == EndpointsOf(visualization)
    IN  {p \in UNION {[1..n -> ids] : n \in 1..Cardinality(ids)} :
           /\ p[1] = x /\ p[Len(p)] = y
           /\ \A i, j \in 1..Len(p) : i # j => p[i] # p[j]
           /\ \A k \in 1..(Len(p) - 1) : IsEdge(p[k], p[k + 1])}

NoParallelEdges ==
    \A i, j \in 1..Len(GraphEdges) :
        (i # j) => ~(/\ GraphEdges[i].source = GraphEdges[j].source
                     /\ GraphEdges[i].target = GraphEdges[j].target)

\* C9: findPathsBetweenNodes(source, target) returns exactly the simple paths
\* from source to target, each once when no two edges join the same pair;
\* [source] alone when source = target; two paths of three nodes on the diamond.
C9_SimplePaths ==
    (called = "findPathsBetweenNodes") =>
        /\ Range(result) = SimplePaths(args.startId, args.endId)
        /\ NoParallelEdges => Len(result) = Cardinality(Range(result))
        /\ args.startId = args.endId => result = << <<args.startId>> >>
        /\ (visualization = DiamondDiagram /\ args.startId = "a" /\ args.endId = "d") =>
               /\ Len(result) = 2
               /\ \A k \in 1..2 : Len(result[k]) = 3

C9_Witness ==
    /\ called = "findPathsBetweenNodes"
    /\ visualization = DiamondDiagram
    /\ result = << <<"a", "b", "d">>, <<"a", "c", "d">> >>

(***************************************************************************)
(* RecommendationEngine.  A recommendation is its category, priority,      *)
(* title, impact and effort; description, implementation and metrics are   *)
(* fixed texts that go with the title.                                     *)
(***************************************************************************)
Rec(category, priority, title, impact, effort) ==
    [category |-> category, priority |-> priority, title |-> title,
     impact |-> impact, effort |-> effort]

When(cond, rec) == IF cond THEN <<rec>> ELSE <<>>

CountNodes(nodes, types) == Len(FilterSeq(nodes, {n \in Range(nodes) : n.type \in types}))

\* description.length of the descriptions of the model.
DescriptionLength(d) ==
    CASE d = "Loads the order list" -> 20
      [] d = "Handles the error case" -> 22
      [] d = "Saves" -> 5
      [] OTHER -> 0

DescriptionIncludes(d, word) == <<d, word>> \in {<<"Handles the error case", "error">>}

\* Array.prototype.sort(compare): stable; e stays before x when
\* compare(e, x) <= 0.  compare is the table of the comparator's results.
RECURSIVE InsertSorted(_, _, _)
InsertSorted(sorted, x, compare) ==
    IF sorted = <<>> THEN <<x>>
    ELSE LET last == sorted[Len(sorted)]
         IN  IF compare[last, x] > 0
             THEN Append(InsertSorted(SubSeq(sorted, 1, Len(sorted) - 1), x, compare), last)
             ELSE Append(sorted, x)

RECURSIVE ArraySort(_, _)
ArraySort(s, compare) ==
    IF s = <<>> THEN <<>>
    ELSE InsertSorted(ArraySort(SubSeq(s, 1, Len(s) - 1), compare), s[Len(s)], compare)

RECURSIVE identifyParallelProcessingOpportunities(_, _)
identifyParallelProcessingOpportunities(nodes, edges) ==
    IF nodes = <<>> THEN <<>>
    ELSE LET outgoing == Len(OutgoingEdges(edges, Head(nodes).id))
         IN  When(outgoing > 1,
                  [forkNode |-> Head(nodes).id, parallelBranches |-> outgoing,
                   potentialSpeedupTenths |-> IF outgoing * 8 < 30 THEN outgoing * 8 ELSE 30])
             \o identifyParallelProcessingOpportunities(Tail(nodes), edges)

RECURSIVE ComplexNodes(_, _)
ComplexNodes(nodes, edges) ==
    IF nodes = <<>> THEN <<>>
    ELSE LET node == Head(nodes)
             incoming == Len(FilterSeq(edges, {e \in Range(edges) : e.target = node.id}))
             outgoing == Len(FilterSeq(edges, {e \in Range(edges) : e.source = node.id}))
             complexity == incoming + outgoing + (IF node.type = "decision" THEN 2 ELSE 0)
         IN  When(complexity > 4,
                  [nodeId |-> node.id, label |-> node.data.label, type |-> node.type,
                   complexity |-> complexity, isComplex |-> TRUE])
             \o ComplexNodes(Tail(nodes), edges)

identifyComplexNodes(nodes, edges) ==
    LET complex == ComplexNodes(nodes, edges)
    IN  ArraySort(complex, [a \in Range(complex), b \in Range(complex) |->
                               b.complexity - a.complexity])

checkErrorHandling(nodes, edges) ==
    LET hasErrorNodes ==
            \E n \in Range(nodes) :
                n.data.present /\ (\/ LowerIncludes(n.data.label, "error")
                                   \/ DescriptionIncludes(n.data.description, "error"))
        hasErrorEdges ==
            \E e \in Range(edges) :
                LowerIncludes(e.label, "error") \/ LowerIncludes(e.label, "fail")
    IN  hasErrorNodes \/ hasErrorEdges

\* dfs(nodeId, path) of detectCircularDependencies: every call has its own
\* copy of path; cycles, visited and recursionStack are shared.
RECURSIVE circularDfs(_, _, _, _)
RECURSIVE CircularDfsEach(_, _, _, _, _)
circularDfs(nodeId, path, edges, st) ==
    IF nodeId \in st.recursionStack
    THEN [st EXCEPT !.cycles =
             Append(@, SubSeq(path, IndexOf(path, nodeId), Len(path)))]
    ELSE IF nodeId \in st.visited THEN st
    ELSE LET entered == [st EXCEPT !.visited = @ \cup {nodeId},
                                   !.recursionStack = @ \cup {nodeId}]
             after == CircularDfsEach(OutgoingEdges(edges, nodeId), 1,
                                      Append(path, nodeId), edges, entered)
         IN  [after EXCEPT !.recursionStack = @ \ {nodeId}]

CircularDfsEach(outgoing, i, path, edges, st) ==
    IF i > Len(outgoing) THEN st
    ELSE CircularDfsEach(outgoing, i + 1, path, edges,
                         circularDfs(outgoing[i].target, path, edges, st))

RECURSIVE CircularDfsNodes(_, _, _, _)
CircularDfsNodes(nodes, i, edges, st) ==
    IF i > Len(nodes) THEN st
    ELSE IF nodes[i].id \in st.visited THEN CircularDfsNodes(nodes, i + 1, edges, st)
    ELSE CircularDfsNodes(nodes, i + 1, edges, circularDfs(nodes[i].id, <<>>, edges, st))

\* detectCircularDependencies starting its search at the first node only.
detectCircularDependencies_FirstNodeOnly(nodes, edges) ==
    IF Len(nodes) = 0 THEN <<>>
    ELSE circularDfs(nodes[1].id, <<>>, edges,
                     [cycles |-> <<>>, visited |-> {}, recursionStack |-> {}]).cycles

detectCircularDependencies(nodes, edges) ==
    CircularDfsNodes(nodes, 1, edges,
                     [cycles |-> <<>>, visited |-> {}, recursionStack |-> {}]).cycles

\* The database rule firing from three database nodes on, not from four.
generatePerformanceRecommendations_DbAtLeastThree(nodes, edges) ==
    When(CountNodes(nodes, {"database"}) >= 3,
         Rec("performance", "high", "Optimize Database Operations", "high", "medium"))
    \o When(CountNodes(nodes, {"api-call"}) > 2,
            Rec("performance", "medium", "Implement API Caching and Batching", "medium", "low"))
    \o When(Len(identifyParallelProcessingOpportunities(nodes, edges)) > 0,
            Rec("performance", "medium", "Implement Parallel Processing", "high", "medium"))

generatePerformanceRecommendations(nodes, edges) ==
    When(CountNodes(nodes, {"database"}) > 3,
         Rec("performance", "high", "Optimize Database Operations", "high", "medium"))
    \o When(CountNodes(nodes, {"api-call"}) > 2,
            Rec("performance", "medium", "Implement API Caching and Batching", "medium", "low"))
    \o When(Len(identifyParallelProcessingOpportunities(nodes, edges)) > 0,
            Rec("performance", "medium", "Implement Parallel Processing", "high", "medium"))

generateStructuralRecommendations(nodes, edges) ==
    When(Len(identifyComplexNodes(nodes, edges)) > 0,
         Rec("structure", "high", "Break Down Complex Components", "high", "high"))
    \o When(~checkErrorHandling(nodes, edges),
            Rec("structure", "high", "Add Error Handling Paths", "high", "medium"))
    \o When(Len(detectCircularDependencies(nodes, edges)) > 0,
            Rec("structure", "high", "Resolve Circular Dependencies", "high", "medium"))

generateUsabilityRecommendations(nodes, edges) ==
    LET userNodes == FilterSeq(nodes, {n \in Range(nodes) :
                                         n.type \in {"user-action", "html-element"}})
        hasFeedback ==
            \E n \in Range(userNodes) :
                n.data.present /\ (\/ LowerIncludes(n.data.label, "feedback")
                                   \/ LowerIncludes(n.data.label, "confirmation"))
    IN  When(Len(userNodes) > 0 /\ ~hasFeedback,
             Rec("usability", "medium", "Add User Feedback Mechanisms", "medium", "low"))
        \o When(Len(userNodes) > 0,
                Rec("usability", "medium", "Implement Accessibility Features", "medium", "medium"))
        \o When(CountNodes(nodes, {"html-element"}) > 0,
                Rec("usability", "medium", "Ensure Mobile Responsiveness", "medium", "medium"))

generateSecurityRecommendations(nodes, edges) ==
    LET hasUserInput ==
            \E n \in Range(nodes) : n.type \in {"user-action", "html-element"}
        hasAuth ==
            \E n \in Range(nodes) :
                n.type = "external-service" /\ n.data.present /\ n.data.serviceType = "auth"
        inputNodes == {n \in Range(nodes) :
                         /\ n.type = "html-element"
                         /\ n.data.present /\ n.data.elementType = "form"}
    IN  When(hasUserInput /\ ~hasAuth,
             Rec("security", "high", "Implement User Authentication", "high", "medium"))
        \o When(inputNodes # {},
                Rec("security", "high", "Implement Input Validation", "high", "low"))
        \o When(CountNodes(nodes, {"api-call"}) > 0,
                Rec("security", "high", "Ensure Secure Communication", "high", "low"))

generateMaintainabilityRecommendations(nodes, edges) ==
    LET poorlyDocumented ==
            FilterSeq(nodes, {n \in Range(nodes) :
                                \/ ~n.data.present
                                \/ Falsy(n.data.description)
                                \/ DescriptionLength(n.data.description) < 10})
    IN  \* poorlyDocumented.length > nodes.length * 0.3
        When(Len(poorlyDocumented) * 10 > Len(nodes) * 3,
             Rec("maintainability", "medium", "Improve Documentation", "medium", "low"))
        \o <<Rec("maintainability", "high", "Implement Comprehensive Testing", "high", "high")>>
        \o <<Rec("maintainability", "medium", "Add Monitoring and Logging", "medium", "medium")>>

generateScalabilityRecommendations(nodes, edges) ==
    When(CountNodes(nodes, {"database"}) > 0,
         Rec("scalability", "medium", "Implement Database Scalability", "high", "high"))
    \o When(CountNodes(nodes, {"api-call", "database", "external-service"}) > 3,
            Rec("scalability", "medium", "Implement Horizontal Scaling", "high", "high"))
    \o <<Rec("scalability", "medium", "Implement Caching Strategy", "medium", "medium")>>

priorityOrder == [high |-> 3, medium |-> 2, low |-> 1]

impactOrder == [high |-> 3, medium |-> 2, low |-> 1]

effortOrder == [low |-> 1, medium |-> 2, high |-> 3]

\* The comparator with its last line written as a <= b ? -1 : 1 turned round:
\* it never answers 0.
CompareRecommendations_NeverEqual(a, b) ==
    LET priorityDiff == priorityOrder[b.priority] - priorityOrder[a.priority]
        impactDiff == impactOrder[b.impact] - impactOrder[a.impact]
    IN  IF priorityDiff # 0 THEN priorityDiff
        ELSE IF impactDiff # 0 THEN impactDiff
        ELSE IF effortOrder[a.effort] < effortOrder[b.effort] THEN -1 ELSE 1

\* The comparator with the effort difference turned round: of two equal in
\* priority and impact the one with more effort comes first.
CompareRecommendations_EffortDescending(a, b) ==
    LET priorityDiff == priorityOrder[b.priority] - priorityOrder[a.priority]
        impactDiff == impactOrder[b.impact] - impactOrder[a.impact]
    IN  IF priorityDiff # 0 THEN priorityDiff
        ELSE IF impactDiff # 0 THEN impactDiff
        ELSE effortOrder[b.effort] - effortOrder[a.effort]

\* The comparator handed to sort in prioritizeRecommendations.
CompareRecommendations(a, b) ==
    LET priorityDiff == priorityOrder[b.priority] - priorityOrder[a.priority]
        impactDiff == impactOrder[b.impact] - impactOrder[a.impact]
    IN  IF priorityDiff # 0 THEN priorityDiff
        ELSE IF impactDiff # 0 THEN impactDiff
        ELSE effortOrder[a.effort] - effortOrder[b.effort]

prioritizeRecommendations(recommendations) ==
    ArraySort(recommendations,
              [a \in Range(recommendations), b \in Range(recommendations) |->
                   CompareRecommendations(a, b)])

\* CollectRecommendations with the security rules run for 'security' only.
CollectRecommendations_AllSkipsSecurity(nodes, edges, analysisType) ==
    LET wanted(type) == analysisType = "all" \/ analysisType = type
    IN  (IF wanted("performance")
         THEN generatePerformanceRecommendations(nodes, edges) ELSE <<>>)
        \o (IF wanted("structure")
            THEN generateStructuralRecommendations(nodes, edges) ELSE <<>>)
        \o (IF wanted("usability")
            THEN generateUsabilityRecommendations(nodes, edges) ELSE <<>>)
        \o (IF analysisType = "security"
            THEN generateSecurityRecommendations(nodes, edges) ELSE <<>>)
        \o (IF wanted("maintainability")
            THEN generateMaintainabilityRecommendations(nodes, edges) ELSE <<>>)
        \o (IF wanted("scalability")
            THEN generateScalabilityRecommendations(nodes, edges) ELSE <<>>)

\* The recommendations pushed by generateRecommendations before the sort.
CollectRecommendations(nodes, edges, analysisType) ==
    LET wanted(type) == analysisType = "all" \/ analysisType = type
    IN  (IF wanted("performance")
         THEN generatePerformanceRecommendations(nodes, edges) ELSE <<>>)
        \o (IF wanted("structure")
            THEN generateStructuralRecommendations(nodes, edges) ELSE <<>>)
        \o (IF wanted("usability")
            THEN generateUsabilityRecommendations(nodes, edges) ELSE <<>>)
        \o (IF wanted("security")
            THEN generateSecurityRecommendations(nodes, edges) ELSE <<>>)
        \o (IF wanted("maintainability")
            THEN generateMaintainabilityRecommendations(nodes, edges) ELSE <<>>)
        \o (IF wanted("scalability")
            THEN generateScalabilityRecommendations(nodes, edges) ELSE <<>>)

\* id is 'rec-' followed by the rank.
Ranked(sorted) ==
    [i \in 1..Len(sorted) |->
        [id |-> <<"rec-", i>>, rank |-> i,
         category |-> sorted[i].category, priority |-> sorted[i].priority,
         title |-> sorted[i].title, impact |-> sorted[i].impact,
         effort |-> sorted[i].effort]]

(***************************************************************************)
(* generateRecommendations.  Destructuring null throws before the try; a   *)
(* nodes value that is no array throws in the first generator that runs    *)
(* (every generator starts with nodes.filter or nodes.some), an edges      *)
(* value that is no array throws where a generator calls edges.filter      *)
(* (for some node) or edges.some; what is thrown inside the try is thrown  *)
(* again as 'Recommendation generation failed'.                            *)
(***************************************************************************)
\* The default of the parameter: analysisType = 'all' when none is passed.
DefaultAnalysisType(analysisType) ==
    IF analysisType = NoValue THEN "all" ELSE analysisType

generateRecommendations(v, analysisTypeGiven) ==
    LET analysisType == DefaultAnalysisType(analysisTypeGiven)
        wanted(type) == analysisType = "all" \/ analysisType = type
        generatorRuns == \E t \in {"performance", "structure", "usability", "security",
                                   "maintainability", "scalability"} : wanted(t)
        throwsOnNodes == v.nodes.kind # "array" /\ generatorRuns
        throwsOnEdges ==
            /\ v.edges.kind # "array"
            /\ \/ wanted("performance") /\ v.nodes.items # <<>>
               \/ wanted("structure")
    IN  IF v.kind = "null"
        THEN [threw |-> "TypeError", recommendations |-> <<>>]
        ELSE IF throwsOnNodes \/ throwsOnEdges
        THEN [threw |-> "Recommendation generation failed", recommendations |-> <<>>]
        ELSE [threw |-> "no",
              recommendations |->
                  Ranked(prioritizeRecommendations(
                      CollectRecommendations(v.nodes.items, v.edges.items, analysisType)))]

(***************************************************************************)
(* Requests to generateRecommendations: an optional decision, form,        *)
(* user-action and auth node, then up to MaxDbNodes database and           *)
(* MaxApiNodes api-call nodes, ids n1, n2, ... in that order; a few edge   *)
(* lists over n1, n2, n3; every analysis type and an unknown one.          *)
(***************************************************************************)
MaxDbNodes == 4

MaxApiNodes == 3

NodeIdAt == <<"n1", "n2", "n3", "n4", "n5", "n6", "n7", "n8", "n9", "n10",
              "n11", "n12", "n13", "n14", "n15", "n16">>

Repeat(x, n) == [i \in 1..n |-> x]

Described(data, documented) ==
    IF documented THEN [data EXCEPT !.description = "Loads the order list"] ELSE data

RecNodes(decision, form, user, auth, nDb, nApi, documented) ==
    LET kinds ==
            When(decision, Node("", "decision", TRUE, Described(Labelled("Check"), documented)))
            \o When(form, Node("", "html-element", TRUE,
                               Described([Labelled("Form") EXCEPT !.elementType = "form"],
                                         documented)))
            \o When(user, Node("", "user-action", TRUE,
                               Described(Labelled("Show Confirmation"), documented)))
            \o When(auth, Node("", "external-service", TRUE,
                               Described([Labelled("Login") EXCEPT !.serviceType = "auth"],
                                         documented)))
            \o Repeat(Node("", "database", TRUE, Described(Labelled("Orders"), documented)), nDb)
            \o Repeat(Node("", "api-call", TRUE, Described(Labelled("Fetch"), documented)), nApi)
    IN  [i \in 1..Len(kinds) |-> [kinds[i] EXCEPT !.id = NodeIdAt[i]]]

RecEdgeLists ==
    { <<>>,
      <<PlainEdge("n1", "n2")>>,
      <<PlainEdge("n1", "n2"), PlainEdge("n1", "n3")>>,
      <<PlainEdge("n1", "n2"), PlainEdge("n2", "n1")>>,
      <<PlainEdge("n1", "n2"), PlainEdge("n1", "n3"), PlainEdge("n3", "n1")>>,
      <<PlainEdge("n1", "n2"), PlainEdge("n1", "n3"), PlainEdge("n2", "n1"),
        PlainEdge("n3", "n1"), PlainEdge("n1", "n1")>>,
      <<Edge("e", "n1", "n2", "on failure")>> }

AnalysisTypes ==
    {NoValue, "all", "performance", "structure", "usability", "security",
     "maintainability", "scalability", "cost"}

RecommendationInputs ==
    {GraphOf(RecNodes(decision, form, user, auth, nDb, nApi, documented), es) :
        decision \in BOOLEAN, form \in BOOLEAN, user \in BOOLEAN, auth \in BOOLEAN,
        nDb \in 0..MaxDbNodes, nApi \in 0..MaxApiNodes, documented \in BOOLEAN,
        es \in RecEdgeLists}
    \cup ShapeFamily

InitRecommend ==
    /\ visualization \in RecommendationInputs
    /\ args \in [analysisType : AnalysisTypes]
    /\ called = "none"
    /\ result = NoResult

\* await engine.generateRecommendations(visualization, analysisType)
GenerateRecommendations ==
    /\ called = "none"
    /\ called' = "generateRecommendations"
    /\ result' = generateRecommendations(visualization, args.analysisType)
    /\ UNCHANGED <<visualization, args>>

NextRecommend == GenerateRecommendations

SpecRecommend == InitRecommend /\ [][NextRecommend]_vars

(***************************************************************************)
(* Claims about generateRecommendations, checked under SpecRecommend.      *)
(***************************************************************************)
Recommended == called = "generateRecommendations" /\ result.threw = "no"

\* The titles in the order the rules pushed them.
GeneratedTitles ==
    LET generated == CollectRecommendations(GraphNodes, GraphEdges,
                                            DefaultAnalysisType(args.analysisType))
    IN  [i \in 1..Len(generated) |-> generated[i].title]

SameSortKey(a, b) ==
    a.priority = b.priority /\ a.impact = b.impact /\ a.effort = b.effort

\* C10: of two recommendations with the same priority, impact and effort, the
\* one generated earlier comes earlier in the list returned.
C10_StableOrder ==
    Recommended =>
        LET recs == result.recommendations
        IN  /\ Len(recs) = Len(GeneratedTitles)
            /\ \A i, j \in 1..Len(recs) :
                   (i < j /\ SameSortKey(recs[i], recs[j])) =>
                       /\ IndexOf(GeneratedTitles, recs[i].title) > 0
                       /\ IndexOf(GeneratedTitles, recs[i].title)
                            < IndexOf(GeneratedTitles, recs[j].title)

C10_Witness ==
    /\ Recommended
    /\ LET recs == result.recommendations
       IN  /\ \E i, j, k \in 1..Len(recs) :
                  /\ i < j /\ j < k
                  /\ SameSortKey(recs[i], recs[j]) /\ SameSortKey(recs[j], recs[k])
                  /\ IndexOf(GeneratedTitles, recs[j].title)
                       > IndexOf(GeneratedTitles, recs[i].title) + 1
           /\ [i \in 1..Len(recs) |-> recs[i].title] # GeneratedTitles

\* The rank tables of the claim, written out on their own.
RankOf == [high |-> 3, medium |-> 2, low |-> 1]

\* a may stand before b: higher priority, then higher impact, then lower effort.
MayPrecede(a, b) ==
    \/ RankOf[a.priority] > RankOf[b.priority]
    \/ /\ RankOf[a.priority] = RankOf[b.priority]
       /\ \/ RankOf[a.impact] > RankOf[b.impact]
          \/ /\ RankOf[a.impact] = RankOf[b.impact]
             /\ RankOf[a.effort] <= RankOf[b.effort]

\* C11: the list returned by generateRecommendations is ordered by priority
\* descending, then impact descending, then effort ascending (high 3, medium 2,
\* low 1); the rank fields are 1..n in list order and every id is 'rec-'
\* followed by the rank.
C11_OrderedAndRanked ==
    Recommended =>
        LET recs == result.recommendations
        IN  /\ \A i, j \in 1..Len(recs) : i < j => MayPrecede(recs[i], recs[j])
            /\ \A i \in 1..Len(recs) :
                   recs[i].rank = i /\ recs[i].id = <<"rec-", recs[i].rank>>

\* A list in which each of the three keys decides some adjacent pair, and whose
\* order is not the order of generation.
C11_Witness ==
    /\ Recommended
    /\ LET recs == result.recommendations
       IN  /\ Len(recs) >= 4
           /\ \E i \in 1..(Len(recs) - 1) : recs[i].priority # recs[i + 1].priority
           /\ \E i \in 1..(Len(recs) - 1) :
                  /\ recs[i].priority = recs[i + 1].priority
                  /\ recs[i].impact # recs[i + 1].impact
           /\ \E i \in 1..(Len(recs) - 1) :
                  /\ recs[i].priority = recs[i + 1].priority
                  /\ recs[i].impact = recs[i + 1].impact
                  /\ recs[i].effort # recs[i + 1].effort
           /\ [i \in 1..Len(recs) |-> recs[i].title] # GeneratedTitles
           /\ recs[Len(recs)].id = <<"rec-", Len(recs)>>

TypesOf(findings) == [i \in 1..Len(findings) |-> findings[i].type]

ScenarioValidated ==
    /\ Validated
    /\ visualization.kind = "object"
    /\ visualization.nodes = ArrayOf(ScenarioNodes)
    /\ visualization.edges = ArrayOf(ScenarioEdges)

ScenarioWarnings ==
    /\ \E i \in 1..Len(result.warnings) : result.warnings[i].type = "missing_end_node"
    /\ \E i \in 1..Len(result.warnings) :
           /\ result.warnings[i].type = "incomplete_database_spec"
           /\ result.warnings[i].nodeId = "2"

\* C12 as stated: the scenario diagram, which has no id and no name, gets the
\* warnings missing_end_node and incomplete_database_spec and no error.
C12_AsStated ==
    (ScenarioValidated /\ visualization.id = NoValue /\ visualization.name = NoValue) =>
        /\ ScenarioWarnings
        /\ result.errors = <<>>

\* C12 (amended): the scenario diagram gets the warnings missing_end_node and
\* incomplete_database_spec; its errors are missing_id when it has no id and
\* missing_name when it has no name or a blank one, in that order, and no
\* other, so the errors list is empty exactly when both are given.
C12_Scenario ==
    ScenarioValidated =>
        /\ ScenarioWarnings
        /\ TypesOf(result.errors) =
               (IF visualization.id = NoValue THEN <<"missing_id">> ELSE <<>>)
               \o (IF visualization.name \in {NoValue, " "}
                   THEN <<"missing_name">> ELSE <<>>)
        /\ result.isValid <=> (visualization.id # NoValue /\ visualization.name = "Flow")

\* The scenario diagram with an id and a name: valid, with the two warnings.
C12_Witness ==
    /\ ScenarioValidated
    /\ visualization.id = "diag-1" /\ visualization.name = "Flow"
    /\ result.errors = <<>>
    /\ ScenarioWarnings
    /\ result.score < 100

DatabaseNodeCount ==
    Cardinality({i \in 1..Len(GraphNodes) : GraphNodes[i].type = "database"})

IsOptimizeDatabase(rec) ==
    /\ rec.category = "performance"
    /\ rec.title = "Optimize Database Operations"
    /\ rec.priority = "high"

NoAnalysisTypePassed == args.analysisType = NoValue

\* C13: called without an analysis type, generateRecommendations returns the
\* performance recommendation 'Optimize Database Operations' with priority
\* high for a diagram with more than 3 database nodes, and does not return it
\* for a diagram with 3 or fewer.
C13_DatabaseRule ==
    (Recommended /\ NoAnalysisTypePassed) =>
        LET recs == result.recommendations
        IN  (DatabaseNodeCount > 3) <=> (\E i \in 1..Len(recs) : IsOptimizeDatabase(recs[i]))

\* Four database nodes among others, no analysis type passed: the
\* recommendation is returned, and it is not the only one.
C13_Witness ==
    /\ Recommended /\ NoAnalysisTypePassed
    /\ DatabaseNodeCount = 4
    /\ Len(GraphNodes) > 4
    /\ LET recs == result.recommendations
       IN  /\ Len(recs) >= 2
           /\ \E i \in 1..Len(recs) : IsOptimizeDatabase(recs[i])

(***************************************************************************)
(* ProcessAnalyzer.  A number that JavaScript computes by a division is    *)
(* kept as the pair <<numerator, denominator>>: the division never throws, *)
(* a zero denominator gives NaN or Infinity.  null is the empty sequence   *)
(* and an object that may be null a sequence of one.                       *)
(***************************************************************************)
RECURSIVE SumSeq(_)
SumSeq(s) == IF s = <<>> THEN 0 ELSE Head(s) + SumSeq(Tail(s))

\* Math.max(...s, 0) for counts.
MaxOf(s) == IF s = <<>> THEN 0 ELSE CHOOSE m \in Range(s) : \A x \in Range(s) : x <= m

\* Math.round of num / den for num >= 0 and den > 0: halves go up.
RoundDiv(num, den) == (2 * num + den) \div (2 * den)

\* nodes.find(n => n.id === nodeId): the index of the first such node, 0 for undefined.
FindNode(nodes, nodeId) ==
    IF \E i \in 1..Len(nodes) : nodes[i].id = nodeId
    THEN CHOOSE i \in 1..Len(nodes) :
             nodes[i].id = nodeId /\ \A j \in 1..(i - 1) : nodes[j].id # nodeId
    ELSE 0

IncomingCount(edges, nodeId) ==
    Cardinality({i \in 1..Len(edges) : edges[i].target = nodeId})

OutgoingCount(edges, nodeId) == Len(OutgoingEdges(edges, nodeId))

isHighComplexityNode(node) ==
    node.type \in {"database", "api-call", "external-service", "decision"}

getBaseProcessingTime(nodeType) ==
    CASE nodeType \in {"start", "end"} -> 1
      [] nodeType = "html-element" -> 100
      [] nodeType = "database" -> 50
      [] nodeType = "api-call" -> 200
      [] nodeType = "decision" -> 5
      [] nodeType = "user-action" -> 1000
      [] nodeType = "external-service" -> 300
      [] OTHER -> 10

\* isHighComplexityNode(node) reads node.type of what nodes.find returned:
\* a TypeError when the path holds an id that no node carries.
PathComplexityThrows(path, nodes) ==
    \E i \in 1..Len(path) : FindNode(nodes, path[i]) = 0

\* The value reduce returns when no step of it throws.
calculatePathComplexity(path, nodes, edges) ==
    SumSeq([i \in 1..Len(path) |->
               IF isHighComplexityNode(nodes[FindNode(nodes, path[i])]) THEN 2 ELSE 1])

estimatePathDuration(path, nodes) ==
    SumSeq([i \in 1..Len(path) |->
               IF FindNode(nodes, path[i]) = 0 \/ Falsy(nodes[FindNode(nodes, path[i])].type)
               THEN getBaseProcessingTime("unknown")
               ELSE getBaseProcessingTime(nodes[FindNode(nodes, path[i])].type)])

\* The paths pushed by the two nested forEach of findAllPaths.
RECURSIVE PathsToEnds(_, _, _, _, _)
PathsToEnds(startId, endNodes, j, nodes, edges) ==
    IF j > Len(endNodes) THEN <<>>
    ELSE findPathsBetweenNodes(startId, endNodes[j].id, nodes, edges, {}, <<>>)
         \o PathsToEnds(startId, endNodes, j + 1, nodes, edges)

RECURSIVE PathsFromStarts(_, _, _, _, _)
PathsFromStarts(startNodes, i, endNodes, nodes, edges) ==
    IF i > Len(startNodes) THEN <<>>
    ELSE PathsToEnds(startNodes[i].id, endNodes, 1, nodes, edges)
         \o PathsFromStarts(startNodes, i + 1, endNodes, nodes, edges)

StartToEndPaths(nodes, edges) ==
    PathsFromStarts(FilterSeq(nodes, {n \in Range(nodes) : n.type = "start"}), 1,
                    FilterSeq(nodes, {n \in Range(nodes) : n.type = "end"}), nodes, edges)

\* findAllPaths: threw tells whether the map over the paths threw.
findAllPaths(nodes, edges) ==
    LET found == StartToEndPaths(nodes, edges)
    IN  IF \E i \in 1..Len(found) : PathComplexityThrows(found[i], nodes)
        THEN [threw |-> TRUE, paths |-> <<>>]
        ELSE [threw |-> FALSE,
              paths |-> [i \in 1..Len(found) |->
                            [id |-> <<"path-", i - 1>>,
                             nodes |-> found[i],
                             length |-> Len(found[i]),
                             complexity |-> calculatePathComplexity(found[i], nodes, edges),
                             estimatedDuration |-> estimatePathDuration(found[i], nodes)]]]

\* findCriticalPath: null for no path, else the first path of the highest complexity.
findCriticalPath(paths, nodes) ==
    IF paths = <<>> THEN <<>>
    ELSE LET k == CHOOSE i \in 1..Len(paths) :
                      /\ \A j \in 1..Len(paths) : paths[j].complexity <= paths[i].complexity
                      /\ \A j \in 1..(i - 1) : paths[j].complexity < paths[i].complexity
         IN  << [id |-> paths[k].id, nodes |-> paths[k].nodes, length |-> paths[k].length,
                 complexity |-> paths[k].complexity,
                 estimatedDuration |-> paths[k].estimatedDuration,
                 isCritical |-> TRUE, reason |-> "Highest complexity path",
                 optimizationPriority |-> "high"] >>

Bottleneck(nodeId, type, severity) == [nodeId |-> nodeId, type |-> type, severity |-> severity]

identifyBottlenecks(nodes, edges) ==
    LET ofNode(node) ==
            When(IncomingCount(edges, node.id) > 2,
                 Bottleneck(node.id, "convergence",
                            IF IncomingCount(edges, node.id) > 4 THEN "high" ELSE "medium"))
            \o When(isHighComplexityNode(node), Bottleneck(node.id, "complexity", "high"))
            \o When(node.type \in {"external-service", "api-call"},
                    Bottleneck(node.id, "external_dependency", "medium"))
        RECURSIVE Each(_)
        Each(i) == IF i > Len(nodes) THEN <<>> ELSE ofNode(nodes[i]) \o Each(i + 1)
    IN  Each(1)

\* tracePath with the visited set it adds to; it follows a node's only outgoing edge.
RECURSIVE tracePath(_, _, _, _)
tracePath(nodeId, nodes, edges, visited) ==
    IF nodeId \in visited THEN <<nodeId>>
    ELSE LET outgoing == OutgoingEdges(edges, nodeId)
         IN  IF Len(outgoing) = 1
             THEN <<nodeId>> \o tracePath(outgoing[1].target, nodes, edges, visited \cup {nodeId})
             ELSE <<nodeId>>

\* Math.round((total / longest) * 10) / 10, in tenths.
calculateParallelSpeedup(parallelPaths) ==
    IF Len(parallelPaths) <= 1 THEN 10
    ELSE RoundDiv(10 * SumSeq([i \in 1..Len(parallelPaths) |-> Len(parallelPaths[i])]),
                  MaxOf([i \in 1..Len(parallelPaths) |-> Len(parallelPaths[i])]))

findParallelProcesses(nodes, edges) ==
    LET forkPoints == FilterSeq(nodes, {n \in Range(nodes) : OutgoingCount(edges, n.id) > 1})
        parallelPaths(forkNode) ==
            [k \in 1..OutgoingCount(edges, forkNode.id) |->
                tracePath(OutgoingEdges(edges, forkNode.id)[k].target, nodes, edges, {})]
    IN  [i \in 1..Len(forkPoints) |->
            [forkNode |-> forkPoints[i].id,
             paths |-> parallelPaths(forkPoints[i]),
             canOptimize |-> TRUE,
             estimatedSpeedup |-> calculateParallelSpeedup(parallelPaths(forkPoints[i]))]]

\* The ids of allNodeIds in the order the Set received them.
RECURSIVE AllNodeIds(_, _, _)
AllNodeIds(dependencies, i, ids) ==
    IF i > Len(dependencies) THEN ids
    ELSE LET withSource == IF dependencies[i].source \in Range(ids) THEN ids
                           ELSE Append(ids, dependencies[i].source)
             withTarget == IF dependencies[i].target \in Range(withSource) THEN withSource
                           ELSE Append(withSource, dependencies[i].target)
         IN  AllNodeIds(dependencies, i + 1, withTarget)

\* findCircularDependencies over dependencies whose source.id and target.id
\* are written source and target; its dfs is the dfs of
\* detectCircularDependencies, started from every id not yet visited.
findCircularDependencies(dependencies) ==
    LET ids == AllNodeIds(dependencies, 1, <<>>)
    IN  CircularDfsNodes([i \in 1..Len(ids) |-> [id |-> ids[i]]], 1, dependencies,
                         [cycles |-> <<>>, visited |-> {}, recursionStack |-> {}]).cycles

detectSequentialPattern(nodes, edges) == Len(edges) > 0 /\ Len(edges) = Len(nodes) - 1

detectBranchingPattern(nodes, edges) ==
    \E i \in 1..Len(nodes) : OutgoingCount(edges, nodes[i].id) > 1

detectLoopPattern(nodes, edges) ==
    Len(findCircularDependencies(
            [i \in 1..Len(edges) |-> [source |-> edges[i].source,
                                      target |-> edges[i].target]])) > 0

\* pipelineNodes.length / nodes.length > 0.7; 0 / 0 is NaN, and NaN > 0.7 is false.
detectPipelinePattern(nodes, edges) ==
    LET pipelineNodes ==
            {i \in 1..Len(nodes) :
                \/ IncomingCount(edges, nodes[i].id) = 1 /\ OutgoingCount(edges, nodes[i].id) = 1
                \/ nodes[i].type = "start" /\ OutgoingCount(edges, nodes[i].id) = 1
                \/ nodes[i].type = "end" /\ IncomingCount(edges, nodes[i].id) = 1}
    IN  Len(nodes) > 0 /\ 10 * Cardinality(pipelineNodes) > 7 * Len(nodes)

analyzeFlowPatterns(nodes, edges) ==
    [sequential |-> detectSequentialPattern(nodes, edges),
     branching |-> detectBranchingPattern(nodes, edges),
     loops |-> detectLoopPattern(nodes, edges),
     pipeline |-> detectPipelinePattern(nodes, edges)]

calculateCyclomaticComplexity(edges, nodes) ==
    Len(edges) - Len(nodes) + 2 + CountNodes(nodes, {"decision"})

calculateFanInOut(nodes, edges) ==
    LET fanIns == [i \in 1..Len(nodes) |-> IncomingCount(edges, nodes[i].id)]
        fanOuts == [i \in 1..Len(nodes) |-> OutgoingCount(edges, nodes[i].id)]
    IN  [maxFanIn |-> MaxOf(fanIns), maxFanOut |-> MaxOf(fanOuts),
         avgFanIn |-> <<SumSeq(fanIns), Len(fanIns)>>,
         avgFanOut |-> <<SumSeq(fanOuts), Len(fanOuts)>>]

\* calculateDepth of calculateMaxDepth, returning the maxDepth it leaves.
RECURSIVE calculateDepth(_, _, _, _, _)
RECURSIVE CalculateDepthEach(_, _, _, _, _, _)
calculateDepth(nodeId, depth, visited, edges, maxDepth) ==
    IF nodeId \in visited THEN maxDepth
    ELSE IF OutgoingEdges(edges, nodeId) = <<>>
    THEN (IF depth > maxDepth THEN depth ELSE maxDepth)
    ELSE CalculateDepthEach(OutgoingEdges(edges, nodeId), 1, depth + 1,
                            visited \cup {nodeId}, edges, maxDepth)

CalculateDepthEach(outgoing, i, depth, visited, edges, maxDepth) ==
    IF i > Len(outgoing) THEN maxDepth
    ELSE CalculateDepthEach(outgoing, i + 1, depth, visited, edges,
                            calculateDepth(outgoing[i].target, depth, visited, edges, maxDepth))

calculateMaxDepth(nodes, edges) ==
    LET startNodes == FilterSeq(nodes, {n \in Range(nodes) : n.type = "start"})
        RECURSIVE Each(_, _)
        Each(i, maxDepth) ==
            IF i > Len(startNodes) THEN maxDepth
            ELSE Each(i + 1, calculateDepth(startNodes[i].id, 0, {}, edges, maxDepth))
    IN  Each(1, 0)

calculateMaxWidth(nodes, edges) ==
    LET forkPoints == FilterSeq(nodes, {n \in Range(nodes) : OutgoingCount(edges, n.id) > 1})
    IN  IF forkPoints = <<>> THEN 1
        ELSE MaxOf([i \in 1..Len(forkPoints) |-> OutgoingCount(edges, forkPoints[i].id)])

calculateCoupling(nodes, edges) == <<Len(edges), Len(nodes) * (Len(nodes) - 1)>>

calculateCohesion(nodes, edges) == <<Len(edges), Len(nodes) * (Len(nodes) - 1)>>

calculateFlowMetrics(nodes, edges, paths) ==
    [cyclomatic_complexity |-> calculateCyclomaticComplexity(edges, nodes),
     fan_in_out |-> calculateFanInOut(nodes, edges),
     depth |-> calculateMaxDepth(nodes, edges),
     width |-> calculateMaxWidth(nodes, edges),
     coupling |-> calculateCoupling(nodes, edges),
     cohesion |-> calculateCohesion(nodes, edges)]

calculateBranchingComplexity(nodes, edges) ==
    SumSeq([i \in 1..Len(nodes) |->
               IF OutgoingCount(edges, nodes[i].id) > 1
               THEN OutgoingCount(edges, nodes[i].id) - 1 ELSE 0])

\* Math.round(nodes.length + edges.length * 0.5 + branching)
calculateFlowComplexity(nodes, edges) ==
    Len(nodes) + calculateBranchingComplexity(nodes, edges) + ((Len(edges) + 1) \div 2)

\* Math.round((avgPathLength / totalNodes) * 100); a path holds a node, so
\* totalNodes is positive when there is a path.
calculateFlowEfficiency(nodes, edges, paths) ==
    IF paths = <<>> THEN 0
    ELSE RoundDiv(100 * SumSeq([i \in 1..Len(paths) |-> paths[i].length]),
                  Len(paths) * Len(nodes))

(***************************************************************************)
(* analyzeFlow.  Destructuring null throws before the try.  Inside it, a   *)
(* nodes value that is no array throws at nodes.filter or nodes.forEach,   *)
(* an edges value that is no array at edges.length (undefined) or          *)
(* edges.map (an object) of the pattern detection at the latest, and       *)
(* findAllPaths throws where calculatePathComplexity meets an id without a *)
(* node; each is thrown again as 'Flow analysis failed: ...'.              *)
(***************************************************************************)
analyzeFlow(v, options) ==
    IF v.kind = "null" THEN [threw |-> "TypeError"]
    ELSE IF v.nodes.kind # "array" \/ v.edges.kind # "array"
    THEN [threw |-> "Flow analysis failed"]
    ELSE LET nodes == v.nodes.items
             edges == v.edges.items
             found == IF options.analyzePaths THEN findAllPaths(nodes, edges)
                      ELSE [threw |-> FALSE, paths |-> <<>>]
             paths == found.paths
         IN  IF found.threw THEN [threw |-> "Flow analysis failed"]
             ELSE [threw |-> "no",
                   paths |-> paths,
                   criticalPath |-> findCriticalPath(paths, nodes),
                   bottlenecks |-> identifyBottlenecks(nodes, edges),
                   parallelProcesses |-> findParallelProcesses(nodes, edges),
                   patterns |-> analyzeFlowPatterns(nodes, edges),
                   metrics |-> IF options.includeMetrics
                               THEN <<calculateFlowMetrics(nodes, edges, paths)>> ELSE <<>>,
                   flowAnalysis |->
                       [totalNodes |-> Len(nodes),
                        totalConnections |-> Len(edges),
                        complexity |-> calculateFlowComplexity(nodes, edges),
                        efficiency |-> calculateFlowEfficiency(nodes, edges, paths)]]

(***************************************************************************)
(* Requests to analyzeFlow: a few node lists over a, b, c, some leaving an *)
(* id without a node, with every edge list up to MaxGraphEdges; the graphs *)
(* the specification names; the shapes of the diagram object; every        *)
(* combination of the two options.                                         *)
(***************************************************************************)
FlowNodeLists ==
    { <<PlainNode("a", "start"), PlainNode("b", "database"), PlainNode("c", "end")>>,
      <<PlainNode("a", "start"), PlainNode("b", "decision"), PlainNode("c", "end")>>,
      <<PlainNode("a", "start"), PlainNode("c", "end")>>,
      <<PlainNode("a", "start"), PlainNode("b", "end"), PlainNode("c", "end")>>,
      <<PlainNode("a", "start"), PlainNode("b", "api-call")>>,
      <<>> }

FlowInputs ==
    {GraphOf(ns, es) : ns \in FlowNodeLists, es \in GraphEdgeLists}
    \cup {ChainDiagram, DiamondDiagram}
    \cup ShapeFamily

FlowOptions == [includeMetrics : BOOLEAN, analyzePaths : BOOLEAN]

InitFlow ==
    /\ visualization \in FlowInputs
    /\ args \in FlowOptions
    /\ called = "none"
    /\ result = NoResult

\* await processAnalyzer.analyzeFlow(visualization, options)
AnalyzeFlow ==
    /\ called = "none"
    /\ called' = "analyzeFlow"
    /\ result' = analyzeFlow(visualization, args)
    /\ UNCHANGED <<visualization, args>>

NextFlow == AnalyzeFlow

SpecFlow == InitFlow /\ [][NextFlow]_vars

(***************************************************************************)
(* Claims about analyzeFlow, checked under SpecFlow.                       *)
(***************************************************************************)
FlowAnalyzed == called = "analyzeFlow"

\* nodes and edges are arrays, of any length.
ArraysGiven ==
    /\ visualization.kind = "object"
    /\ visualization.nodes.kind = "array"
    /\ visualization.edges.kind = "array"

\* An edge whose source or target is an id that is not among the nodes.
HasDanglingEdge ==
    \E i \in 1..Len(GraphEdges) :
        \/ FindNode(GraphNodes, GraphEdges[i].source) = 0
        \/ FindNode(GraphNodes, GraphEdges[i].target) = 0

\* C16: for every diagram whose nodes and edges are arrays, dangling edge
\* endpoints and disconnected nodes included, analyzeFlow returns a result
\* instead of throwing.
C16_AsStated ==
    (FlowAnalyzed /\ ArraysGiven) => result.threw = "no"

\* analyzeFlow threw for a diagram of two nodes, a start and an end, whose
\* edges lead from the one to the other through an id that is not a node.
C16_Witness ==
    /\ FlowAnalyzed /\ ArraysGiven
    /\ Len(GraphNodes) = 2
    /\ HasDanglingEdge
    /\ result.threw = "Flow analysis failed"

\* All that C16 leaves standing: analyzeFlow returns for graphs without a
\* dangling edge, disconnected nodes included, and when no paths are asked for.
C16_ReturnsWithoutDangling ==
    (FlowAnalyzed /\ ArraysGiven /\ (~HasDanglingEdge \/ ~args.analyzePaths)) =>
        result.threw = "no"

(***************************************************************************)
(* ComplexityAnalyzer.  Its methods that share a name with a method of     *)
(* another service carry the prefix Complexity_.  The four scores, the     *)
(* overall score, the level, the interpretations and the metrics that are  *)
(* quotients of binary floating-point numbers are left out of the result:  *)
(* computing them is arithmetic on numbers, which neither throws nor       *)
(* writes to an object (a division by nodes.length = 0 gives NaN).         *)
(***************************************************************************)
findStronglyConnectedComponents(nodes, edges) == 1

Complexity_calculateCyclomaticComplexity(nodes, edges) ==
    Len(edges) - Len(nodes) + 2 * findStronglyConnectedComponents(nodes, edges)
        + CountNodes(nodes, {"decision"})

\* Math.max(...outgoingCounts, 1)
calculateBranchingFactor(nodes, edges) ==
    MaxOf([i \in 1..Len(nodes) |-> OutgoingCount(edges, nodes[i].id)] \o <<1>>)

\* The start nodes of calculateMaxDepth: typed start, or without incoming edge.
StartLikeNodes(nodes, edges) ==
    FilterSeq(nodes, {n \in Range(nodes) : n.type = "start" \/ IncomingCount(edges, n.id) = 0})

\* calculateMaxDepth; its calculateDepth is that of ProcessAnalyzer.calculateMaxDepth.
Complexity_calculateMaxDepth(nodes, edges) ==
    LET startNodes == StartLikeNodes(nodes, edges)
        RECURSIVE Each(_, _)
        Each(i, maxDepth) ==
            IF i > Len(startNodes) THEN maxDepth
            ELSE Each(i + 1, calculateDepth(startNodes[i].id, 0, {}, edges, maxDepth))
    IN  Each(1, 0)

\* assignLevel of calculateNodeLevels, returning the levels object it leaves:
\* a function from the node ids that are its keys.
RECURSIVE assignLevel(_, _, _, _, _)
RECURSIVE AssignLevelEach(_, _, _, _, _, _)
assignLevel(nodeId, level, visited, edges, levels) ==
    IF nodeId \in visited THEN levels
    ELSE LET old == IF nodeId \in DOMAIN levels THEN levels[nodeId] ELSE 0
             assigned == [k \in DOMAIN levels \cup {nodeId} |->
                             IF k = nodeId THEN (IF level > old THEN level ELSE old)
                             ELSE levels[k]]
         IN  AssignLevelEach(OutgoingEdges(edges, nodeId), 1, level + 1,
                             visited \cup {nodeId}, edges, assigned)

AssignLevelEach(outgoing, i, level, visited, edges, levels) ==
    IF i > Len(outgoing) THEN levels
    ELSE AssignLevelEach(outgoing, i + 1, level, visited, edges,
                         assignLevel(outgoing[i].target, level, visited, edges, levels))

calculateNodeLevels(nodes, edges) ==
    LET startNodes == FilterSeq(nodes, {n \in Range(nodes) : n.type = "start"})
        RECURSIVE Each(_, _)
        Each(i, levels) ==
            IF i > Len(startNodes) THEN levels
            ELSE Each(i + 1, assignLevel(startNodes[i].id, 0, {}, edges, levels))
    IN  Each(1, [k \in {} |-> 0])

\* The greatest number of keys of levels that carry the same level, at least 1.
Complexity_calculateMaxWidth(nodes, edges) ==
    LET levels == calculateNodeLevels(nodes, edges)
        levelCount(level) == Cardinality({k \in DOMAIN levels : levels[k] = level})
        counts == {1} \cup {levelCount(levels[k]) : k \in DOMAIN levels}
    IN  CHOOSE m \in counts : \A c \in counts : c <= m

RECURSIVE countPathsBetween(_, _, _, _, _)
countPathsBetween(startId, endId, nodes, edges, visited) ==
    IF startId = endId THEN 1
    ELSE IF startId \in visited THEN 0
    ELSE SumSeq([k \in 1..OutgoingCount(edges, startId) |->
                    countPathsBetween(OutgoingEdges(edges, startId)[k].target, endId,
                                      nodes, edges, visited \cup {startId})])

calculatePathDiversity(nodes, edges) ==
    LET startNodes == FilterSeq(nodes, {n \in Range(nodes) : n.type = "start"})
        endNodes == FilterSeq(nodes, {n \in Range(nodes) : n.type = "end"})
        totalPaths ==
            SumSeq([i \in 1..Len(startNodes) |->
                SumSeq([j \in 1..Len(endNodes) |->
                    countPathsBetween(startNodes[i].id, endNodes[j].id, nodes, edges, {})])])
    IN  IF startNodes = <<>> \/ endNodes = <<>> THEN 1
        ELSE IF totalPaths < 10 THEN totalPaths ELSE 10

\* The keys of distribution, in the order the forEach created them.
RECURSIVE DistinctTypes(_, _, _)
DistinctTypes(nodes, i, types) ==
    IF i > Len(nodes) THEN types
    ELSE DistinctTypes(nodes, i + 1,
                       IF nodes[i].type \in Range(types) THEN types
                       ELSE Append(types, nodes[i].type))

\* Object.entries(distribution).reduce((a, b) => a[1] > b[1] ? a : b) from
\* entry i on, a being the entry kept so far.
RECURSIVE ReduceDominant(_, _, _)
ReduceDominant(entries, i, a) ==
    IF i > Len(entries) THEN a
    ELSE ReduceDominant(entries, i + 1, IF a[2] > entries[i][2] THEN a ELSE entries[i])

\* reduce without an initial value throws a TypeError on no entry, which is
\* the case of an empty nodes array.
NodeDistributionThrows(nodes) == nodes = <<>>

\* analyzeNodeDistribution for a nodes array that is not empty.
analyzeNodeDistribution(nodes) ==
    LET types == DistinctTypes(nodes, 1, <<>>)
        entries == [k \in 1..Len(types) |-> <<types[k], CountNodes(nodes, {types[k]})>>]
    IN  [typeCount |-> Len(types),
         distribution |-> entries,
         dominantType |-> ReduceDominant(entries, 2, entries[1])[1]]

analyzeConnectionPatterns(nodes, edges) ==
    LET count(test(_, _)) ==
            Cardinality({i \in 1..Len(nodes) :
                test(OutgoingCount(edges, nodes[i].id), IncomingCount(edges, nodes[i].id))})
        FanOut(outgoing, incoming) == outgoing > 1
        FanIn(outgoing, incoming) == incoming > 1
        Sequential(outgoing, incoming) == outgoing = 1 /\ incoming = 1
        Parallel(outgoing, incoming) == outgoing > 1 \/ incoming > 1
    IN  [fanOut |-> count(FanOut), fanIn |-> count(FanIn),
         sequential |-> count(Sequential), parallel |-> count(Parallel)]

identifyComplexityHotspots(nodes, edges) ==
    LET scored == [i \in 1..Len(nodes) |->
                      [nodeId |-> nodes[i].id, label |-> nodes[i].data.label,
                       type |-> nodes[i].type,
                       complexity |-> IncomingCount(edges, nodes[i].id)
                                      + OutgoingCount(edges, nodes[i].id)
                                      + (IF nodes[i].type = "decision" THEN 2 ELSE 0)]]
        hotspots == FilterSeq(scored, {n \in Range(scored) : n.complexity > 3})
    IN  ArraySort(hotspots, [a \in Range(hotspots), b \in Range(hotspots) |->
                                b.complexity - a.complexity])

\* findSequentialChains and findRedundantPaths return [].
identifySimplificationOpportunities(nodes, edges) == <<>>

analyzeComplexityFactors(nodes, edges) ==
    [nodeDistribution |-> analyzeNodeDistribution(nodes),
     connectionPatterns |-> analyzeConnectionPatterns(nodes, edges),
     complexityHotspots |-> identifyComplexityHotspots(nodes, edges),
     simplificationOpportunities |-> identifySimplificationOpportunities(nodes, edges)]

\* hasCycle of ComplexityAnalyzer.detectCycles: found is what it returns, the
\* rest what it leaves; a return of true leaves the recursion stack as it is.
RECURSIVE hasCycle(_, _, _)
RECURSIVE HasCycleEach(_, _, _, _, _)
hasCycle(nodeId, edges, st) ==
    IF nodeId \in st.recursionStack
    THEN [st EXCEPT !.cycles = @ + 1, !.found = TRUE]
    ELSE IF nodeId \in st.visited THEN [st EXCEPT !.found = FALSE]
    ELSE HasCycleEach(OutgoingEdges(edges, nodeId), 1, nodeId, edges,
                      [st EXCEPT !.visited = @ \cup {nodeId},
                                 !.recursionStack = @ \cup {nodeId}])

HasCycleEach(outgoing, i, nodeId, edges, st) ==
    IF i > Len(outgoing)
    THEN [st EXCEPT !.recursionStack = @ \ {nodeId}, !.found = FALSE]
    ELSE LET after == hasCycle(outgoing[i].target, edges, st)
         IN  IF after.found THEN after
             ELSE HasCycleEach(outgoing, i + 1, nodeId, edges, after)

Complexity_detectCycles(nodes, edges) ==
    LET RECURSIVE Each(_, _)
        Each(i, st) ==
            IF i > Len(nodes) THEN st
            ELSE IF nodes[i].id \in st.visited THEN Each(i + 1, st)
            ELSE Each(i + 1, hasCycle(nodes[i].id, edges, st))
    IN  Each(1, [visited |-> {}, recursionStack |-> {}, cycles |-> 0, found |-> FALSE]).cycles

countBranches(nodes, edges) ==
    SumSeq([i \in 1..Len(nodes) |->
               IF OutgoingCount(edges, nodes[i].id) > 1
               THEN OutgoingCount(edges, nodes[i].id) - 1 ELSE 0])

\* cycles * 3 + branches * 1.5
Complexity_calculateFlowComplexity(nodes, edges) ==
    <<6 * Complexity_detectCycles(nodes, edges) + 3 * countBranches(nodes, edges), 2>>

\* userNodes.length * 1.5 + externalNodes.length * 2
calculateInteractionComplexity(nodes, edges) ==
    <<3 * CountNodes(nodes, {"user-action", "html-element"})
      + 4 * CountNodes(nodes, {"external-service", "api-call"}), 2>>

(***************************************************************************)
(* analyze.  Destructuring null throws before the try.  Inside it, a nodes *)
(* value that is no array throws at nodes.length or nodes.filter, an edges *)
(* value that is no array at edges.length (undefined) or at the            *)
(* edges.filter of the first node (an object), and an empty nodes array at *)
(* the reduce of analyzeNodeDistribution; each is thrown again as          *)
(* 'Complexity analysis failed: ...'.                                      *)
(***************************************************************************)
analyze(v) ==
    IF v.kind = "null" THEN [threw |-> "TypeError"]
    ELSE IF v.nodes.kind # "array" \/ v.edges.kind # "array"
    THEN [threw |-> "Complexity analysis failed"]
    ELSE IF NodeDistributionThrows(v.nodes.items)
    THEN [threw |-> "Complexity analysis failed"]
    ELSE LET nodes == v.nodes.items
             edges == v.edges.items
         IN  [threw |-> "no",
              metrics |->
                  [structural |->
                       [nodeCount |-> Len(nodes),
                        edgeCount |-> Len(edges),
                        cyclomaticComplexity |->
                            Complexity_calculateCyclomaticComplexity(nodes, edges),
                        branchingFactor |-> calculateBranchingFactor(nodes, edges),
                        depth |-> Complexity_calculateMaxDepth(nodes, edges),
                        width |-> Complexity_calculateMaxWidth(nodes, edges)],
                   cognitive |->
                       [decisionPoints |-> CountNodes(nodes, {"decision"}),
                        externalDependencies |->
                            CountNodes(nodes, {"external-service", "api-call"}),
                        userInteractions |-> CountNodes(nodes, {"user-action", "html-element"}),
                        dataOperations |-> CountNodes(nodes, {"database"}),
                        pathDiversity |-> calculatePathDiversity(nodes, edges)],
                   computational |->
                       [computationalNodes |->
                            CountNodes(nodes, {"decision", "database", "api-call",
                                               "external-service"}),
                        ioOperations |->
                            CountNodes(nodes, {"database", "html-element", "user-action"}),
                        networkCalls |-> CountNodes(nodes, {"api-call", "external-service"}),
                        databaseOperations |-> CountNodes(nodes, {"database"})]],
              factors |-> analyzeComplexityFactors(nodes, edges),
              breakdown |->
                  [flowComplexity |-> Complexity_calculateFlowComplexity(nodes, edges),
                   interactionComplexity |-> calculateInteractionComplexity(nodes, edges)]]

(***************************************************************************)
(* Requests to analyze and to generateRecommendations: a few node lists    *)
(* over a, b, c, the empty one among them, with every edge list up to      *)
(* MaxGraphEdges; the graphs the specification names; the shapes of the    *)
(* diagram object.                                                         *)
(***************************************************************************)
ComplexityNodeLists ==
    { <<>>,
      <<PlainNode("a", "start"), PlainNode("b", "decision"), PlainNode("c", "end")>>,
      <<PlainNode("a", "start"), PlainNode("b", "database"), PlainNode("c", "database")>>,
      <<PlainNode("a", "start"), PlainNode("c", "end")>> }

WellShapedInputs ==
    {GraphOf(ns, es) : ns \in ComplexityNodeLists, es \in GraphEdgeLists}
    \cup {ChainDiagram, DiamondDiagram}
    \cup ShapeFamily

InitWellShaped ==
    /\ visualization \in WellShapedInputs
    /\ args \in [analysisType : {NoValue, "structure", "cost"}]
    /\ called = "none"
    /\ result = NoResult

\* await complexityAnalyzer.analyze(visualization)
Analyze ==
    /\ called = "none"
    /\ called' = "analyze"
    /\ result' = analyze(visualization)
    /\ UNCHANGED <<visualization, args>>

NextWellShaped == Analyze \/ GenerateRecommendations

SpecWellShaped == InitWellShaped /\ [][NextWellShaped]_vars

(***************************************************************************)
(* Claims about analyze and generateRecommendations on arrays, checked     *)
(* under SpecWellShaped.                                                   *)
(***************************************************************************)
\* C17: for every diagram whose nodes and edges are arrays, of any length,
\* zero included, analyze and generateRecommendations each return a result
\* instead of throwing.
C17_AsStated ==
    (called \in {"analyze", "generateRecommendations"} /\ ArraysGiven) =>
        result.threw = "no"

\* analyze threw for the diagram whose nodes and edges are empty arrays.
C17_Witness ==
    /\ called = "analyze" /\ ArraysGiven
    /\ NodesGiven = <<>> /\ EdgesGiven = <<>>
    /\ result.threw = "Complexity analysis failed"

\* All that C17 leaves standing: generateRecommendations returns for all
\* arrays and analyze for every nodes array that is not empty.
C17_ReturnsUnlessEmpty ==
    (ArraysGiven /\ (called = "generateRecommendations"
                     \/ (called = "analyze" /\ NodesGiven # <<>>))) =>
        result.threw = "no"

(***************************************************************************)
(* DiagramParser.  A template string is the tuple of its parts.  A node's  *)
(* position is TRUE where the node carries one; the parsed node's position *)
(* is then that same object, and the object {x: 0, y: 0} otherwise.        *)
(***************************************************************************)
categorizeNode(nodeType) ==
    CASE nodeType = "start" -> "entry"
      [] nodeType = "end" -> "exit"
      [] nodeType = "html-element" -> "ui"
      [] nodeType = "database" -> "data"
      [] nodeType \in {"api-call", "external-service"} -> "integration"
      [] nodeType = "decision" -> "logic"
      [] nodeType = "user-action" -> "interaction"
      [] OTHER -> "other"

getSemanticRole(node) ==
    CASE node.type = "start" -> "process_initiator"
      [] node.type = "end" -> "process_terminator"
      [] node.type = "html-element" -> "user_interface"
      [] node.type = "database" -> "data_persistence"
      [] node.type = "api-call" -> "external_communication"
      [] node.type = "decision" -> "conditional_logic"
      [] node.type = "user-action" -> "user_interaction"
      [] node.type = "external-service" -> "third_party_integration"
      [] OTHER -> "generic_processor"

\* value || fallback
OrElse(value, fallback) == IF Falsy(value) THEN fallback ELSE value

\* data?.actionType is a property no node of the model carries.
generateNodeDescription(node) ==
    LET data == node.data
        label == OrElse(data.label, "Unknown")
    IN  CASE node.type = "start" -> <<"Process begins: ", label>>
          [] node.type = "end" -> <<"Process ends: ", label>>
          [] node.type = "html-element" ->
                 <<"User interface element: ", label, " (",
                   OrElse(data.elementType, "generic"), ")">>
          [] node.type = "database" ->
                 <<"Database operation: ", OrElse(data.operation, "query"), " on ",
                   OrElse(data.table, "table")>>
          [] node.type = "api-call" ->
                 <<"API request: ", OrElse(data.method, "GET"), " ",
                   OrElse(data.endpoint, "/api")>>
          [] node.type = "decision" ->
                 <<"Decision point: ", OrElse(data.condition, "conditional logic")>>
          [] node.type = "user-action" -> <<"User action: ", "interaction", " - ", label>>
          [] node.type = "external-service" ->
                 <<"External service: ", OrElse(data.serviceType, "third-party"),
                   " integration">>
          [] OTHER -> <<"Generic step: ", label>>

\* baseComplexity * multiplier, a multiple of 0.5.
calculateNodeComplexity(node) ==
    CASE node.type \in {"start", "end"} -> <<1, 2>>
      [] node.type = "html-element" -> <<2, 2>>
      [] node.type = "database" -> <<4, 2>>
      [] node.type = "api-call" -> <<5, 2>>
      [] node.type \in {"decision", "external-service"} -> <<6, 2>>
      [] node.type = "user-action" -> <<3, 2>>
      [] OTHER -> <<2, 2>>

\* The callback, had its four assignments written to node instead of parsed.
ParseNode_AssignsToNode(node) ==
    LET computed ==
            [category |-> categorizeNode(node.type),
             semanticRole |-> getSemanticRole(node),
             description |-> generateNodeDescription(node),
             complexity |-> calculateNodeComplexity(node)]
    IN  [parsed |->
             [id |-> node.id, type |-> node.type,
              label |-> OrElse(node.data.label, "Untitled Node"),
              position |-> IF node.position THEN "node.position" ELSE "{x: 0, y: 0}",
              data |-> [node.data EXCEPT !.present = TRUE],
              category |-> computed.category,
              semanticRole |-> computed.semanticRole,
              description |-> computed.description,
              complexity |-> computed.complexity],
         node |->
             [id |-> node.id, type |-> node.type, position |-> node.position,
              data |-> node.data,
              category |-> computed.category,
              semanticRole |-> computed.semanticRole,
              description |-> computed.description,
              complexity |-> computed.complexity]]

\* The callback of nodes.map in parseNodes: the object it returns, and the
\* node it was handed as the callback leaves it.  The four assignments
\* after the literal write to parsed, an object of its own.
ParseNode(node) ==
    [parsed |->
         [id |-> node.id, type |-> node.type,
          label |-> OrElse(node.data.label, "Untitled Node"),
          position |-> IF node.position THEN "node.position" ELSE "{x: 0, y: 0}",
          data |-> [node.data EXCEPT !.present = TRUE],
          category |-> categorizeNode(node.type),
          semanticRole |-> getSemanticRole(node),
          description |-> generateNodeDescription(node),
          complexity |-> calculateNodeComplexity(node)],
     node |-> node]

parseNodes(nodes) == [i \in 1..Len(nodes) |-> ParseNode(nodes[i]).parsed]

\* The nodes array of the caller after parseNodes.
NodesAfterParse(nodes) == [i \in 1..Len(nodes) |-> ParseNode(nodes[i]).node]

getEdgeSemanticType(edge) ==
    IF Falsy(edge.label) THEN "default_flow"
    ELSE IF LowerIncludes(edge.label, "yes") \/ LowerIncludes(edge.label, "true")
    THEN "positive_condition"
    ELSE IF LowerIncludes(edge.label, "no") \/ LowerIncludes(edge.label, "false")
    THEN "negative_condition"
    ELSE IF LowerIncludes(edge.label, "error") THEN "error_flow"
    ELSE "default_flow"

extractEdgeConditions(edge) ==
    IF ~Falsy(edge.label) /\ (Includes(edge.label, "if") \/ Includes(edge.label, "when"))
    THEN << [type |-> "conditional", expression |-> edge.label] >>
    ELSE <<>>

\* edge.type and edge.animated are properties no edge of the model carries.
parseEdges(edges) ==
    [i \in 1..Len(edges) |->
        [id |-> edges[i].id, source |-> edges[i].source, target |-> edges[i].target,
         label |-> OrElse(edges[i].label, ""),
         type |-> "default",
         semanticType |-> getEdgeSemanticType(edges[i]),
         conditions |-> extractEdgeConditions(edges[i]),
         animated |-> FALSE]]

\* traverseFromNode with the visited set and the path array it adds to.
RECURSIVE traverseFromNode(_, _, _, _)
RECURSIVE TraverseFromNodeEach(_, _, _, _, _)
traverseFromNode(node, allNodes, allEdges, st) ==
    IF node.id \in st.visited THEN st
    ELSE TraverseFromNodeEach(
             OutgoingEdges(allEdges, node.id), 1, allNodes, allEdges,
             [visited |-> st.visited \cup {node.id},
              path |-> Append(st.path,
                              [id |-> node.id, type |-> node.type, label |-> node.label,
                               description |-> node.description,
                               semanticRole |-> node.semanticRole])])

TraverseFromNodeEach(outgoingEdges, i, allNodes, allEdges, st) ==
    IF i > Len(outgoingEdges) THEN st
    ELSE LET k == FindNode(allNodes, outgoingEdges[i].target)
         IN  TraverseFromNodeEach(
                 outgoingEdges, i + 1, allNodes, allEdges,
                 IF k # 0 /\ allNodes[k].id \notin st.visited
                 THEN traverseFromNode(allNodes[k], allNodes, allEdges, st)
                 ELSE st)

\* The steps pushed by startNodes.forEach: each start node has a path array
\* of its own, all share the visited set.
RECURSIVE StepsFromStarts(_, _, _, _, _)
StepsFromStarts(startNodes, i, nodes, edges, visited) ==
    IF i > Len(startNodes) THEN <<>>
    ELSE LET after == traverseFromNode(startNodes[i], nodes, edges,
                                       [visited |-> visited, path |-> <<>>])
         IN  after.path \o StepsFromStarts(startNodes, i + 1, nodes, edges, after.visited)

\* step.stepNumber: undefined for an object without that property.
StepNumberOf(step) == IF "stepNumber" \in DOMAIN step THEN step.stepNumber ELSE NoValue

\* a < b on step numbers: false when either is undefined.
LessThan(a, b) == a # NoValue /\ b # NoValue /\ a < b

\* step and allSteps are the steps as traverseFromNode pushed them.
findStepDependencies(step, allSteps) ==
    LET kept == FilterSeq(allSteps,
                          {s \in Range(allSteps) :
                              /\ LessThan(StepNumberOf(s), StepNumberOf(step))
                              /\ s.semanticRole = step.semanticRole})
    IN  [k \in 1..Len(kept) |-> kept[k].id]

estimateStepDuration(step) ==
    CASE step.semanticRole = "process_initiator" -> "1 minute"
      [] step.semanticRole = "user_interface" -> "2-5 minutes"
      [] step.semanticRole = "data_persistence" -> "1-3 minutes"
      [] step.semanticRole = "external_communication" -> "2-10 seconds"
      [] step.semanticRole = "conditional_logic" -> "< 1 second"
      [] step.semanticRole = "user_interaction" -> "10-60 seconds"
      [] step.semanticRole = "third_party_integration" -> "1-5 seconds"
      [] OTHER -> "1-2 minutes"

extractProcessSteps(nodes, edges) ==
    LET steps == StepsFromStarts(StartLikeNodes(nodes, edges), 1, nodes, edges, {})
    IN  [i \in 1..Len(steps) |->
            [stepNumber |-> i,
             id |-> steps[i].id, type |-> steps[i].type, label |-> steps[i].label,
             description |-> steps[i].description, semanticRole |-> steps[i].semanticRole,
             dependencies |-> findStepDependencies(steps[i], steps),
             estimatedDuration |-> estimateStepDuration(steps[i])]]

RECURSIVE getDepthFromNode(_, _, _, _)
getDepthFromNode(node, allNodes, allEdges, visited) ==
    IF node.id \in visited THEN 0
    ELSE LET outgoingEdges == OutgoingEdges(allEdges, node.id)
             childDepth(edge) ==
                 IF FindNode(allNodes, edge.target) = 0 THEN 0
                 ELSE getDepthFromNode(allNodes[FindNode(allNodes, edge.target)],
                                       allNodes, allEdges, visited \cup {node.id})
         IN  IF outgoingEdges = <<>> THEN 1
             ELSE 1 + MaxOf([k \in 1..Len(outgoingEdges) |-> childDepth(outgoingEdges[k])])

Parser_calculateMaxDepth(nodes, edges) ==
    LET startNodes == StartLikeNodes(nodes, edges)
    IN  MaxOf([i \in 1..Len(startNodes) |-> getDepthFromNode(startNodes[i], nodes, edges, {})])

getComplexityLevel(score) ==
    IF score <= 3 THEN "Low"
    ELSE IF score <= 7 THEN "Medium"
    ELSE IF score <= 12 THEN "High"
    ELSE "Very High"

getComplexityRecommendations(score) ==
    IF score <= 3
    THEN <<"Process is simple and straightforward", "Good for rapid implementation">>
    ELSE IF score <= 7
    THEN <<"Moderate complexity", "Consider breaking into smaller components",
           "Good documentation recommended">>
    ELSE IF score <= 12
    THEN <<"High complexity", "Strong testing strategy needed",
           "Consider modular architecture">>
    ELSE <<"Very high complexity", "Requires careful planning", "Consider simplification",
           "Extensive testing essential">>

\* calculateComplexity on the parsed nodes and edges.  The sum under
\* Math.round is a multiple of 0.5, kept here in halves; calculateBranchingFactor
\* of the parser is that of ComplexityAnalyzer.
calculateComplexity(nodes, edges) ==
    LET nodeHalves == SumSeq([i \in 1..Len(nodes) |-> nodes[i].complexity[1]])
        branchingFactor == calculateBranchingFactor(nodes, edges)
        depth == Parser_calculateMaxDepth(nodes, edges)
        overallScore == RoundDiv(nodeHalves + Len(edges) + 4 * branchingFactor + 2 * depth, 20)
    IN  [overallScore |-> overallScore,
         level |-> getComplexityLevel(overallScore),
         factors |-> [nodeComplexity |-> RoundDiv(nodeHalves, 2),
                      connectionComplexity |-> RoundDiv(Len(edges), 2),
                      branchingFactor |-> branchingFactor,
                      maxDepth |-> depth],
         recommendations |-> getComplexityRecommendations(overallScore)]

detectDecisionPattern(nodes, edges) ==
    LET decisions == FilterSeq(nodes, {n \in Range(nodes) : n.type = "decision"})
    IN  [i \in 1..Len(decisions) |->
            [nodeId |-> decisions[i].id, label |-> decisions[i].data.label,
             condition |-> decisions[i].data.condition,
             outgoingPaths |-> OutgoingCount(edges, decisions[i].id)]]

\* extractPatterns reads nodes and edges of the visualization itself; the
\* sequential, parallel and loop detections return [].
extractPatterns(v) ==
    LET decisions == detectDecisionPattern(v.nodes.items, v.edges.items)
    IN  When(Len(decisions) > 0,
             [type |-> "decision", name |-> "Decision Points", instances |-> decisions])

\* detectDecisionPattern calls edges.filter for each decision node: a
\* TypeError when the visualization has no edges.
ExtractPatternsThrows(v) ==
    v.edges.kind # "array" /\ CountNodes(v.nodes.items, {"decision"}) > 0

\* detectCircularFlow; its hasCycle is that of ComplexityAnalyzer.detectCycles
\* without the counter.
detectCircularFlow(nodes, edges) ==
    LET RECURSIVE Each(_, _)
        Each(i, st) ==
            IF i > Len(nodes) THEN FALSE
            ELSE LET after == hasCycle(nodes[i].id, edges, st)
                 IN  after.found \/ Each(i + 1, after)
    IN  Each(1, [visited |-> {}, recursionStack |-> {}, cycles |-> 0, found |-> FALSE])

analyzeBasicFlow(nodes, edges) ==
    [entryPoints |-> CountNodes(nodes, {"start"}),
     exitPoints |-> CountNodes(nodes, {"end"}),
     totalConnections |-> Len(edges),
     averageConnectionsPerNode |-> <<Len(edges), Len(nodes)>>,
     hasCircularFlow |-> detectCircularFlow(nodes, edges)]

getNodeTypeStats(nodes) ==
    LET types == DistinctTypes(nodes, 1, <<>>)
    IN  [k \in 1..Len(types) |-> <<types[k], CountNodes(nodes, {types[k]})>>]

(***************************************************************************)
(* parseVisualization.  All of it runs inside the try: reading nodes of    *)
(* null, a nodes value that is no array, an edges value that is an object  *)
(* (edges.map), and extractPatterns on a visualization without edges but   *)
(* with a decision node each end in Error('Parsing failed: ...').  A part  *)
(* of the result that an option leaves out is the empty sequence, a part   *)
(* that is there a sequence of one.  elapsed is Date.now() - startTime.    *)
(***************************************************************************)
parseVisualization(v, options, elapsed) ==
    IF v.kind = "null" \/ v.nodes.kind # "array" \/ v.edges.kind = "object"
    THEN [threw |-> "Parsing failed"]
    ELSE IF options.extractPatterns /\ ExtractPatternsThrows(v)
    THEN [threw |-> "Parsing failed"]
    ELSE LET parsedNodes == parseNodes(v.nodes.items)
             parsedEdges == parseEdges(v.edges.items)
             patterns == IF options.extractPatterns THEN extractPatterns(v) ELSE <<>>
         IN  [threw |-> "no",
              id |-> v.id,
              name |-> v.name,
              description |-> "",
              nodes |-> parsedNodes,
              edges |-> parsedEdges,
              processSteps |-> extractProcessSteps(parsedNodes, parsedEdges),
              complexity |-> calculateComplexity(parsedNodes, parsedEdges),
              patterns |-> When(Len(patterns) > 0, patterns),
              flowAnalysis |-> When(options.analyzeFlow,
                                    analyzeBasicFlow(parsedNodes, parsedEdges)),
              metadata |-> When(options.includeMetadata,
                                [totalNodes |-> Len(parsedNodes),
                                 totalEdges |-> Len(parsedEdges),
                                 nodeTypes |-> getNodeTypeStats(parsedNodes),
                                 processingTime |-> elapsed])]

\* The caller's diagram after parseVisualization: parseNodes is the one
\* place that builds objects out of the node objects handed in.
DiagramAfterParse(v) ==
    IF v.kind = "null" \/ v.nodes.kind # "array" THEN v
    ELSE [v EXCEPT !.nodes.items = NodesAfterParse(v.nodes.items)]

(***************************************************************************)
(* One call of one of the five analysis operations on the caller's         *)
(* diagram.  The diagrams: a few node lists of every node type with every  *)
(* list of up to MaxParseEdges labelled edges, the scenario diagram, the   *)
(* graphs the specification names, the shapes of the diagram object.  The  *)
(* options are all given or all switched off.                              *)
(***************************************************************************)
MaxParseEdges == 2

MaxElapsed == 1

ParseEdgeSet ==
    {Edge("e1", "a", "b", NoValue), Edge("e2", "b", "c", "yes"),
     Edge("e3", "b", "a", "if not"), Edge("e4", "a", "c", "on error"),
     Edge("e5", "c", "a", "when done"), Edge("e6", "a", "z", NoValue),
     Edge("e7", "b", "b", "on failure")}

ParseNodeLists ==
    { <<>>,
      <<Node("a", "start", TRUE, NoData),
        Node("b", "decision", TRUE, [Labelled("Check") EXCEPT !.condition = "x > 0"]),
        Node("c", "end", FALSE, Labelled("Done"))>>,
      <<Node("a", "html-element", TRUE, [Labelled("Form") EXCEPT !.elementType = "form"]),
        Node("b", "database", FALSE, EmptyData),
        Node("c", "api-call", TRUE, [Labelled("Fetch") EXCEPT !.method = "GET"])>>,
      <<Node("a", "user-action", TRUE, Labelled("Show Confirmation")),
        Node("b", "external-service", TRUE, [Labelled("Login") EXCEPT !.serviceType = "auth"]),
        Node("c", "widget", TRUE, Labelled("Load"))>>,
      <<Node("a", "start", TRUE, Labelled("Go")), Node("c", "end", TRUE, Labelled("Done"))>>,
      <<Node("c", "database", TRUE, Labelled("Orders")),
        Node("b", "database", TRUE, Labelled("Orders")),
        Node("a", "start", TRUE, Labelled("Go"))>> }

ReadOnlyInputs ==
    {GraphOf(ns, es) : ns \in ParseNodeLists, es \in SeqsUpTo(ParseEdgeSet, MaxParseEdges)}
    \cup ScenarioFamily
    \cup {ChainDiagram, DiamondDiagram}
    \cup ShapeFamily

ReadOnlyArgs ==
    {[analysisType |-> NoValue, includeMetrics |-> b, analyzePaths |-> b,
      includeMetadata |-> b, analyzeFlow |-> b, extractPatterns |-> b] : b \in BOOLEAN}

InitReadOnly ==
    /\ visualization \in ReadOnlyInputs
    /\ args \in ReadOnlyArgs
    /\ called = "none"
    /\ result = NoResult

\* await parser.parseVisualization(visualization, options)
ParseVisualization ==
    /\ called = "none"
    /\ called' = "parseVisualization"
    /\ \E elapsed \in 0..MaxElapsed :
           result' = parseVisualization(visualization, args, elapsed)
    /\ visualization' = DiagramAfterParse(visualization)
    /\ UNCHANGED args

NextReadOnly ==
    \/ ValidateDiagram
    \/ ParseVisualization
    \/ AnalyzeFlow
    \/ Analyze
    \/ GenerateRecommendations

SpecReadOnly == InitReadOnly /\ [][NextReadOnly]_vars

(***************************************************************************)
(* Claims about all five operations, checked under SpecReadOnly.           *)
(***************************************************************************)
\* C15: whichever of validateDiagram, parseVisualization, analyzeFlow,
\* analyze and generateRecommendations is called, and whether it returns or
\* throws, the caller's diagram is after the call what it was before: the
\* same nodes and edges in the same order with the same fields.
C15_InputUnchanged == [][visualization' = visualization]_vars

\* parseVisualization returned parsed nodes that carry what it computed,
\* sharing the position of the node they were made from, and the node of
\* the caller carries none of it.
C15_Witness ==
    /\ called = "parseVisualization"
    /\ result.threw = "no"
    /\ Len(result.nodes) = 3
    /\ result.nodes[2].category = "logic"
    /\ result.nodes[1].position = "node.position"
    /\ Len(result.processSteps) = 3
    /\ DOMAIN NodesGiven[2] = {"id", "type", "position", "data"}
    /\ ~NodesGiven[1].data.present /\ result.nodes[1].data.present

(***************************************************************************)
(* ProcessAnalyzer.analyzeDependencies.  criticalityScore is kept in       *)
(* tenths: ten times the score is a whole number.                          *)
(***************************************************************************)
determineDependencyType(sourceNode, targetNode) ==
    IF sourceNode.type = "database" /\ targetNode.type = "api-call" THEN "data_dependency"
    ELSE IF sourceNode.type = "decision" THEN "conditional_dependency"
    ELSE IF sourceNode.type = "user-action" THEN "user_dependency"
    ELSE "sequential_dependency"

calculateDependencyStrength(sourceNode) ==
    IF sourceNode.type \in {"database", "external-service"} THEN "strong"
    ELSE IF sourceNode.type \in {"html-element", "user-action"} THEN "medium"
    ELSE "weak"

isDependencyCritical(targetNode, edges) == IncomingCount(edges, targetNode.id) = 1

DependencyEnd(node) ==
    [id |-> node.id, label |-> OrElse(node.data.label, "Untitled"), type |-> node.type]

\* edges.forEach in analyzeDependencies: a dependency for every edge both
\* of whose ends are ids of nodes.
RECURSIVE DependenciesOf(_, _, _)
DependenciesOf(edges, i, nodes) ==
    IF i > Len(edges) THEN <<>>
    ELSE LET edge == edges[i]
             sourceNode == FindNode(nodes, edge.source)
             targetNode == FindNode(nodes, edge.target)
         IN  (IF sourceNode # 0 /\ targetNode # 0
              THEN <<[id |-> <<edge.source, "-", edge.target>>,
                      source |-> DependencyEnd(nodes[sourceNode]),
                      target |-> DependencyEnd(nodes[targetNode]),
                      type |-> determineDependencyType(nodes[sourceNode], nodes[targetNode]),
                      strength |-> calculateDependencyStrength(nodes[sourceNode]),
                      critical |-> isDependencyCritical(nodes[targetNode], edges)]>>
              ELSE <<>>)
             \o DependenciesOf(edges, i + 1, nodes)

IncomingDeps(dependencies, id) ==
    Len(FilterSeq(dependencies, {d \in Range(dependencies) : d.target.id = id}))

OutgoingDeps(dependencies, id) ==
    Len(FilterSeq(dependencies, {d \in Range(dependencies) : d.source.id = id}))

calculateCriticalityScore(node, incoming, outgoing) ==
    20 * incoming + 15 * outgoing
    + (CASE node.type = "database" -> 30
         [] node.type = "external-service" -> 25
         [] node.type = "api-call" -> 20
         [] node.type = "decision" -> 15
         [] OTHER -> 10)

findCriticalComponents(nodes, dependencies) ==
    LET components ==
            [i \in 1..Len(nodes) |->
                [nodeId |-> nodes[i].id, label |-> nodes[i].data.label, type |-> nodes[i].type,
                 incomingCount |-> IncomingDeps(dependencies, nodes[i].id),
                 outgoingCount |-> OutgoingDeps(dependencies, nodes[i].id),
                 totalConnections |-> IncomingDeps(dependencies, nodes[i].id)
                                      + OutgoingDeps(dependencies, nodes[i].id),
                 criticalityScore |->
                     calculateCriticalityScore(nodes[i],
                                               IncomingDeps(dependencies, nodes[i].id),
                                               OutgoingDeps(dependencies, nodes[i].id))]]
        sorted == ArraySort(components,
                            [a \in Range(components), b \in Range(components) |->
                                b.criticalityScore - a.criticalityScore])
    IN  SubSeq(sorted, 1, IF Len(sorted) < 5 THEN Len(sorted) ELSE 5)

\* matrix[node.id][otherNode.id]; a later node of the same id overwrites
\* the row of an earlier one with the same values.
buildDependencyMatrix(nodes, dependencies) ==
    [id \in {n.id : n \in Range(nodes)} |->
        [other \in {n.id : n \in Range(nodes)} |->
            \E d \in Range(dependencies) : d.source.id = id /\ d.target.id = other]]

DepCount(dependencies, id) ==
    Len(FilterSeq(dependencies,
                  {d \in Range(dependencies) : d.target.id = id \/ d.source.id = id}))

\* nodes.forEach in findMostDependentComponent: null as <<>>, a component as
\* a sequence of one.
RECURSIVE MostDependentFrom(_, _, _, _, _)
MostDependentFrom(nodes, i, dependencies, maxDependencies, mostDependent) ==
    IF i > Len(nodes) THEN mostDependent
    ELSE LET depCount == DepCount(dependencies, nodes[i].id)
         IN  IF depCount > maxDependencies
             THEN MostDependentFrom(nodes, i + 1, dependencies, depCount,
                                    <<[nodeId |-> nodes[i].id, label |-> nodes[i].data.label,
                                       dependencyCount |-> depCount]>>)
             ELSE MostDependentFrom(nodes, i + 1, dependencies, maxDependencies, mostDependent)

findMostDependentComponent(nodes, dependencies) ==
    MostDependentFrom(nodes, 1, dependencies, 0, <<>>)

analyzeDependencies(v) ==
    IF v.kind = "null" THEN [threw |-> "TypeError"]
    ELSE IF v.nodes.kind # "array" \/ v.edges.kind # "array"
    THEN [threw |-> "Dependency analysis failed"]
    ELSE LET nodes == v.nodes.items
             dependencies == DependenciesOf(v.edges.items, 1, nodes)
             circularDependencies ==
                 findCircularDependencies(
                     [i \in 1..Len(dependencies) |->
                         [source |-> dependencies[i].source.id,
                          target |-> dependencies[i].target.id]])
         IN  [threw |-> "no",
              dependencies |-> dependencies,
              circularDependencies |-> circularDependencies,
              criticalComponents |-> findCriticalComponents(nodes, dependencies),
              dependencyMatrix |-> buildDependencyMatrix(nodes, dependencies),
              insights |->
                  [strongDependencies |->
                       Len(FilterSeq(dependencies,
                                     {d \in Range(dependencies) : d.strength = "strong"})),
                   weakDependencies |->
                       Len(FilterSeq(dependencies,
                                     {d \in Range(dependencies) : d.strength = "weak"})),
                   circularCount |-> Len(circularDependencies),
                   mostDependentComponent |-> findMostDependentComponent(nodes, dependencies)]]

(***************************************************************************)
(* ProcessAnalyzer.analyzePerformance.  The multipliers are 1.5, 2, 1.8    *)
(* and 0.5, 1, 2, 5: times are kept in hundredths of a millisecond, where  *)
(* every product is a whole number, and the thresholds of 30% and 80% of   *)
(* the slowest node are compared after multiplying both sides by ten.      *)
(***************************************************************************)
getComplexityMultiplier(node) ==
    IF node.type = "decision" /\ ~Falsy(node.data.condition) THEN 15
    ELSE IF node.type = "database" /\ node.data.operation = "write" THEN 20
    ELSE IF node.type = "api-call" /\ node.data.method = "POST" THEN 18
    ELSE 10

getDataMultiplier(metrics) ==
    CASE OrElse(metrics.expectedDataLoad, "medium") = "low" -> 5
      [] OrElse(metrics.expectedDataLoad, "medium") = "high" -> 20
      [] OrElse(metrics.expectedDataLoad, "medium") = "very_high" -> 50
      [] OTHER -> 10

estimateNodePerformance(nodes, metrics) ==
    [i \in 1..Len(nodes) |->
        [nodeId |-> nodes[i].id,
         estimatedTime |-> getBaseProcessingTime(nodes[i].type)
                           * getComplexityMultiplier(nodes[i]) * getDataMultiplier(metrics),
         timeUnit |-> "ms",
         factors |-> [baseTime |-> getBaseProcessingTime(nodes[i].type),
                      complexity |-> getComplexityMultiplier(nodes[i]),
                      dataLoad |-> getDataMultiplier(metrics)]]]

identifyPerformanceBottlenecks(nodePerformance) ==
    LET sortedByTime ==
            ArraySort(nodePerformance,
                      [a \in Range(nodePerformance), b \in Range(nodePerformance) |->
                          b.estimatedTime - a.estimatedTime])
        slow == FilterSeq(sortedByTime,
                          {n \in Range(sortedByTime) :
                              10 * n.estimatedTime >= 3 * sortedByTime[1].estimatedTime})
    IN  [i \in 1..Len(slow) |->
            [nodeId |-> slow[i].nodeId, estimatedTime |-> slow[i].estimatedTime,
             timeUnit |-> slow[i].timeUnit, factors |-> slow[i].factors,
             bottleneckType |-> "performance",
             severity |-> IF 10 * slow[i].estimatedTime >= 8 * sortedByTime[1].estimatedTime
                          THEN "high" ELSE "medium"]]

\* nodePerformance.find(np => np.nodeId === nodeId)?.estimatedTime || 0
TimeOfNode(nodePerformance, nodeId) ==
    IF FindNode([i \in 1..Len(nodePerformance) |-> [id |-> nodePerformance[i].nodeId]],
                nodeId) = 0
    THEN 0
    ELSE nodePerformance[FindNode([i \in 1..Len(nodePerformance) |->
                                      [id |-> nodePerformance[i].nodeId]],
                                  nodeId)].estimatedTime

calculatePathPerformance(paths, nodePerformance) ==
    [i \in 1..Len(paths) |->
        LET totalTime == SumSeq([k \in 1..Len(paths[i].nodes) |->
                                    TimeOfNode(nodePerformance, paths[i].nodes[k])])
        IN  [id |-> paths[i].id, nodes |-> paths[i].nodes, length |-> paths[i].length,
             complexity |-> paths[i].complexity,
             estimatedDuration |-> paths[i].estimatedDuration,
             totalExecutionTime |-> totalTime,
             averageNodeTime |-> <<totalTime, Len(paths[i].nodes)>>]]

suggestPerformanceOptimizations(bottlenecks) ==
    LET high == FilterSeq(bottlenecks, {b \in Range(bottlenecks) : b.severity = "high"})
    IN  [i \in 1..Len(high) |->
            [type |-> "caching", target |-> high[i].nodeId,
             description |-> "Implement caching to reduce processing time",
             expectedImprovement |-> "30-50%"]]

\* calculateTotalExecutionTime and findLongestPathTime: both the largest
\* totalExecutionTime, 0 without a path.
calculateTotalExecutionTime(pathPerformance) ==
    MaxOf([i \in 1..Len(pathPerformance) |-> pathPerformance[i].totalExecutionTime])

\* potentialSpeedup, outgoing.length * 0.8, in tenths.
identifyParallelizableComponents(nodes, edges) ==
    LET branching == FilterSeq(nodes, {n \in Range(nodes) : OutgoingCount(edges, n.id) > 1})
    IN  [i \in 1..Len(branching) |->
            [nodeId |-> branching[i].id,
             parallelBranches |-> OutgoingCount(edges, branching[i].id),
             potentialSpeedup |-> 8 * OutgoingCount(edges, branching[i].id)]]

identifyScalabilityFactors(nodes) ==
    When(CountNodes(nodes, {"database"}) > 0,
         [factor |-> "database_operations", impact |-> "high",
          description |-> "Database operations may become bottlenecks at scale"])
    \o When(CountNodes(nodes, {"api-call"}) > 0,
            [factor |-> "external_api_calls", impact |-> "medium",
             description |-> "External API calls may limit scalability"])

analyzePerformance(v, metrics) ==
    IF v.kind = "null" THEN [threw |-> "TypeError"]
    ELSE IF v.nodes.kind # "array" THEN [threw |-> "Performance analysis failed"]
    ELSE IF v.edges.kind # "array" /\ Len(v.nodes.items) > 0
    THEN [threw |-> "Performance analysis failed"]
    ELSE LET nodes == v.nodes.items
             edges == v.edges.items
             nodePerformance == estimateNodePerformance(nodes, metrics)
             bottlenecks == identifyPerformanceBottlenecks(nodePerformance)
             found == findAllPaths(nodes, edges)
             pathPerformance == calculatePathPerformance(found.paths, nodePerformance)
         IN  IF found.threw THEN [threw |-> "Performance analysis failed"]
             ELSE [threw |-> "no",
                   nodePerformance |-> nodePerformance,
                   bottlenecks |-> bottlenecks,
                   pathPerformance |-> pathPerformance,
                   suggestedOptimizations |-> suggestPerformanceOptimizations(bottlenecks),
                   overall |->
                       [estimatedTotalTime |-> calculateTotalExecutionTime(pathPerformance),
                        criticalPathTime |-> calculateTotalExecutionTime(pathPerformance),
                        parallelizable |-> identifyParallelizableComponents(nodes, edges),
                        scalabilityFactors |-> identifyScalabilityFactors(nodes)]]

(***************************************************************************)
(* ImplementationGuide.generateImplementation.  The generated file tree,   *)
(* code examples, API specification, schema and configuration files are    *)
(* constant templates and stubs that read nothing of the diagram but the   *)
(* node types counted here; they are left out of the result.               *)
(***************************************************************************)
calculateStructuralComplexity(nodes) ==
    CountNodes(nodes, {"html-element"}) + CountNodes(nodes, {"database"})
    + CountNodes(nodes, {"decision"}) + CountNodes(nodes, {"api-call", "external-service"})
    + CountNodes(nodes, {"user-action"})

selectArchitecturalPattern(nodes) ==
    IF calculateStructuralComplexity(nodes) < 5 THEN "MVC"
    ELSE IF calculateStructuralComplexity(nodes) < 15 THEN "Layered Architecture"
    ELSE "Microservices"

defineLayers(nodes) ==
    <<"Presentation", "Business Logic", "Data Access">>
    \o (IF CountNodes(nodes, {"external-service"}) > 0 THEN <<"Integration Layer">> ELSE <<>>)

\* analysis.workflows is always one workflow.
assessImplementationComplexity(nodes) ==
    LET score == calculateStructuralComplexity(nodes)
                 + 2 * CountNodes(nodes, {"external-service"}) + 1
    IN  [score |-> score,
         level |-> IF score < 10 THEN "Low" ELSE IF score < 20 THEN "Medium" ELSE "High",
         factors |-> [components |-> calculateStructuralComplexity(nodes),
                      integrations |-> CountNodes(nodes, {"external-service"}),
                      workflows |-> 1]]

estimateImplementationTime(complexity) ==
    CASE complexity.level = "Low" -> "1-2 weeks"
      [] complexity.level = "Medium" -> "3-6 weeks"
      [] OTHER -> "2-4 months"

recommendTeamSize(complexity) ==
    CASE complexity.level = "Low" -> "1-2 developers"
      [] complexity.level = "Medium" -> "2-4 developers"
      [] OTHER -> "4-8 developers"

generateImplementation(v, options) ==
    IF v.kind = "null" \/ v.nodes.kind # "array" \/ v.edges.kind # "array"
    THEN [threw |-> "Implementation guide generation failed"]
    ELSE LET nodes == v.nodes.items
             complexity == assessImplementationComplexity(nodes)
         IN  [threw |-> "no",
              architecture |->
                  [pattern |-> selectArchitecturalPattern(nodes),
                   layers |-> defineLayers(nodes),
                   modules |-> <<"Auth", "User", "Process">>,
                   dependencies |-> <<>>],
              testStructure |-> When(options.includeTests, [testData |-> "{}"]),
              implementation |->
                  [estimatedTimeToComplete |-> estimateImplementationTime(complexity),
                   recommendedTeamSize |-> recommendTeamSize(complexity),
                   skillsRequired |-> <<>>,
                   developmentPhases |-> <<>>],
              complexity |-> complexity,
              bestPractices |-> <<>>]

(***************************************************************************)
(* MCPIntegrationService.  Its parser and analyzers are set once, in the   *)
(* constructor.  The helpers that return a constant ([] or {}) are left    *)
(* out of the understanding; complexity.level of ComplexityAnalyzer is a   *)
(* floating-point score and is left out as well.                           *)
(***************************************************************************)
AllOptions ==
    [analysisType |-> NoValue, includeMetrics |-> TRUE, analyzePaths |-> TRUE,
     includeMetadata |-> TRUE, analyzeFlow |-> TRUE, extractPatterns |-> TRUE]

\* { nodes: parsed.nodes, edges: parsed.edges }
ParsedGraph(parsed) == Diagram(NoValue, NoValue, ArrayOf(parsed.nodes), ArrayOf(parsed.edges))

ParsedTypes(parsed) == {n.type : n \in Range(parsed.nodes)}

\* level.toLowerCase() of the four levels of getComplexityLevel.
LevelToLowerCase(level) ==
    CASE level = "Low" -> "low"
      [] level = "Medium" -> "medium"
      [] level = "High" -> "high"
      [] level = "Very High" -> "very high"

generateProcessDescription(parsed) ==
    <<"A ", LevelToLowerCase(parsed.complexity.level), " complexity process">>
    \o (IF "html-element" \in ParsedTypes(parsed)
        THEN <<" with user interface components">> ELSE <<>>)
    \o (IF "database" \in ParsedTypes(parsed)
        THEN <<" involving database operations">> ELSE <<>>)
    \o (IF "api-call" \in ParsedTypes(parsed)
        THEN <<" requiring external API integration">> ELSE <<>>)
    \o <<".">>

identifyProcessType(parsed) ==
    IF {"html-element", "user-action"} \subseteq ParsedTypes(parsed) THEN "user_workflow"
    ELSE IF {"api-call", "database"} \subseteq ParsedTypes(parsed) THEN "data_processing"
    ELSE IF "external-service" \in ParsedTypes(parsed) THEN "integration_flow"
    ELSE "business_process"

analyzeComponents(nodes) ==
    [i \in 1..Len(nodes) |->
        [id |-> nodes[i].id, name |-> nodes[i].label, type |-> nodes[i].type,
         category |-> nodes[i].category, complexity |-> nodes[i].complexity,
         dependencies |-> <<>>, interfaces |-> <<>>]]

identifyIntegrationPoints(nodes) ==
    LET integration == FilterSeq(nodes, {n \in Range(nodes) : n.category = "integration"})
    IN  [i \in 1..Len(integration) |->
            [id |-> integration[i].id, type |-> integration[i].type,
             service |-> OrElse(integration[i].data.serviceType, "unknown"),
             protocol |-> "HTTP", dataFormat |-> "JSON"]]

recommendArchitecture(parsed) ==
    IF parsed.complexity.level = "Low" THEN "monolithic"
    ELSE IF parsed.complexity.level = "Medium"
            /\ {"database", "api-call"} \cap ParsedTypes(parsed) # {}
    THEN "layered"
    ELSE "microservices"

recommendTechnologyStack(parsed, context) ==
    [runtime |-> OrElse(context.technology, "nodejs"),
     framework |-> IF OrElse(context.technology, "nodejs") = "nodejs"
                   THEN "express" ELSE "spring",
     database |-> IF "database" \in ParsedTypes(parsed) THEN "mongodb" ELSE "null",
     frontend |-> IF "html-element" \in ParsedTypes(parsed) THEN "react" ELSE "null"]

\* understanding.field, undefined where the understanding has no such field
Field(understanding, name) ==
    IF name \in DOMAIN understanding THEN understanding[name] ELSE NoValue

generateFullAnalysis(parsed, context) ==
    LET flowAnalysis == analyzeFlow(ParsedGraph(parsed), AllOptions)
        complexity == analyze(ParsedGraph(parsed))
    IN  IF flowAnalysis.threw # "no" THEN [threw |-> flowAnalysis.threw]
        ELSE IF complexity.threw # "no" THEN [threw |-> complexity.threw]
        ELSE [threw |-> "no",
              processOverview |->
                  [name |-> parsed.name,
                   description |-> generateProcessDescription(parsed),
                   type |-> identifyProcessType(parsed),
                   domain |-> OrElse(context.domain, "general")],
              technicalStructure |->
                  [components |-> analyzeComponents(parsed.nodes),
                   dataStores |-> FilterSeq(parsed.nodes,
                                            {n \in Range(parsed.nodes) : n.type = "database"}),
                   integrationPoints |-> identifyIntegrationPoints(parsed.nodes),
                   dependencies |-> <<>>],
              implementationGuidance |->
                  [recommendedArchitecture |-> recommendArchitecture(parsed),
                   technologyStack |-> recommendTechnologyStack(parsed, context)],
              developmentPlan |->
                  [estimatedEffort |-> "2-4 weeks",
                   criticalPath |-> flowAnalysis.criticalPath,
                   risks |-> <<>>],
              codeStructure |-> [suggestedModules |-> <<>>, apiEndpoints |-> <<>>,
                                 dataModels |-> <<>>, testingAreas |-> <<>>]]

generateImplementationGuide(parsed, context) ==
    [threw |-> "no",
     implementation |-> [framework |-> "express"],
     stepByStepGuide |-> [setup |-> <<>>, coreImplementation |-> <<>>, integration |-> <<>>,
                          testing |-> <<>>, deployment |-> <<>>],
     codeExamples |-> <<>>,
     bestPractices |-> <<>>]

generateOptimizationGuide(parsed, context) ==
    [threw |-> "no",
     optimizations |-> [immediate |-> <<>>, shortTerm |-> <<>>, longTerm |-> <<>>]]

generateTestingStrategy(parsed, context) ==
    [threw |-> "no",
     testingApproach |-> [strategy |-> "comprehensive", coverage |-> "80%",
                          tools |-> <<"jest", "supertest">>]]

createSummaryFormat(understanding) ==
    [overview |-> Field(understanding, "processOverview"),
     keyInsights |->
         [architecture |->
              IF "implementationGuidance" \in DOMAIN understanding
              THEN understanding.implementationGuidance.recommendedArchitecture ELSE NoValue,
          effort |->
              IF "developmentPlan" \in DOMAIN understanding
              THEN understanding.developmentPlan.estimatedEffort ELSE NoValue,
          risks |->
              IF "developmentPlan" \in DOMAIN understanding THEN <<>> ELSE NoValue],
     quickStart |->
         IF "stepByStepGuide" \in DOMAIN understanding
         THEN understanding.stepByStepGuide.setup ELSE "Setup instructions not available"]

createCodeReadyFormat(understanding) ==
    [architecture |->
         IF "implementationGuidance" \in DOMAIN understanding
         THEN understanding.implementationGuidance.recommendedArchitecture ELSE NoValue,
     modules |->
         IF "codeStructure" \in DOMAIN understanding
         THEN understanding.codeStructure.suggestedModules ELSE NoValue,
     examples |-> <<>>,
     setup |->
         IF "stepByStepGuide" \in DOMAIN understanding
         THEN understanding.stepByStepGuide.setup ELSE NoValue]

formatResponse(understanding, format) ==
    CASE format = "summary" -> createSummaryFormat(understanding)
      [] format = "code_ready" -> createCodeReadyFormat(understanding)
      [] OTHER -> understanding

\* understandDiagram: every throw inside it, that of the parser and those
\* of the two analyzers included, comes out as Error('MCP understanding
\* failed: ...').  elapsed is Date.now() - startTime.
understandDiagram(v, context, requestType, format, elapsed) ==
    LET parsed == parseVisualization(v, AllOptions, elapsed)
    IN  IF parsed.threw # "no" THEN [threw |-> "MCP understanding failed"]
        ELSE LET understanding ==
                     CASE requestType = "implementation_guide" ->
                              generateImplementationGuide(parsed, context)
                       [] requestType = "optimization" ->
                              generateOptimizationGuide(parsed, context)
                       [] requestType = "testing_strategy" ->
                              generateTestingStrategy(parsed, context)
                       [] OTHER -> generateFullAnalysis(parsed, context)
             IN  IF understanding.threw # "no" THEN [threw |-> "MCP understanding failed"]
                 ELSE [threw |-> "no",
                       formatted |-> formatResponse(understanding, format),
                       processingTime |-> elapsed,
                       context |-> context,
                       requestType |-> requestType,
                       format |-> format]

\* validateIntegration: the three checks are stubs that find nothing.
validateIntegration(v, targetTechnology, elapsed) ==
    LET parsed == parseVisualization(v, AllOptions, elapsed)
    IN  IF parsed.threw # "no" THEN [threw |-> parsed.threw]
        ELSE [threw |-> "no", isCompatible |-> TRUE, issues |-> <<>>,
              recommendations |-> <<>>, confidence |-> <<85, 100>>]

\* extractRequirements: the seven extractions are stubs that return [].
extractRequirements(v, elapsed) ==
    LET parsed == parseVisualization(v, AllOptions, elapsed)
    IN  IF parsed.threw # "no" THEN [threw |-> parsed.threw]
        ELSE [threw |-> "no", functional |-> <<>>, nonFunctional |-> <<>>,
              technical |-> <<>>, security |-> <<>>, performance |-> <<>>,
              scalability |-> <<>>, integration |-> <<>>]

getCapabilities ==
    [threw |-> "no",
     integration |-> [technologies |-> <<"nodejs", "python", "java", "go", "typescript">>],
     formats |-> [output |-> <<"detailed", "summary", "code_ready", "documentation">>,
                  input |-> <<"reactflow", "mermaid", "custom">>]]

\* DiagramParser.generateSummary: a sample summary, whatever the id.
generateSummary(diagramId) ==
    [threw |-> "no", id |-> diagramId, complexity |-> "Medium",
     estimatedImplementationTime |-> "2-3 days"]

(***************************************************************************)
(* The route handlers of routes/diagrams.js, routes/analysis.js and        *)
(* routes/mcp.js.  Every handler is one try block with one catch block;    *)
(* the POST handlers and the summary handler await one service call, so a  *)
(* request is handled in two steps, the one up to the await and the one    *)
(* after it.  Here called is the position of the handler ("none" before    *)
(* it has run, "awaiting" at its await, "returned" after it), args is the  *)
(* route with the rest of the request, visualization is                    *)
(* req.body.visualization (NullVisualization for a body without one), and  *)
(* result holds the responses sent, the settled service call the handler   *)
(* waits for, and whether an exception left the handler.                   *)
(***************************************************************************)
MaxRouteEdges == 1

GetRoutes == {"summary", "capabilities"}

PostRoutes ==
    {"parse", "validate", "extract-patterns",
     "process-flow", "complexity", "recommendations", "dependencies", "performance",
     "understand", "implement", "validate-integration", "extract-requirements"}

Routes == GetRoutes \cup PostRoutes

\* The service method a route calls.
ServiceOf(route) ==
    CASE route = "parse" -> "parser.parseVisualization"
      [] route = "validate" -> "validator.validateDiagram"
      [] route = "summary" -> "parser.generateSummary"
      [] route = "extract-patterns" -> "parser.extractPatterns"
      [] route = "process-flow" -> "processAnalyzer.analyzeFlow"
      [] route = "complexity" -> "complexityAnalyzer.analyze"
      [] route = "recommendations" -> "recommendationEngine.generateRecommendations"
      [] route = "dependencies" -> "processAnalyzer.analyzeDependencies"
      [] route = "performance" -> "processAnalyzer.analyzePerformance"
      [] route = "understand" -> "mcpService.understandDiagram"
      [] route = "implement" -> "implementationGuide.generateImplementation"
      [] route = "capabilities" -> "mcpService.getCapabilities"
      [] route = "validate-integration" -> "mcpService.validateIntegration"
      [] route = "extract-requirements" -> "mcpService.extractRequirements"

\* const { name = fallback } = req.body
Default(value, fallback) == IF value = NoValue THEN fallback ELSE value

Request(route) ==
    [route |-> route, bodyGiven |-> TRUE, id |-> "diag-1",
     analysisType |-> NoValue, includeMetrics |-> TRUE, analyzePaths |-> TRUE,
     includeMetadata |-> TRUE, analyzeFlow |-> TRUE, extractPatterns |-> TRUE,
     expectedDataLoad |-> NoValue, requestType |-> NoValue, format |-> NoValue,
     domain |-> NoValue, technology |-> NoValue,
     targetTechnology |-> NoValue, includeTests |-> NoValue]

\* The requests to a route: what the handler reads of the body besides the
\* visualization, in a few values each.
RequestsOf(route) ==
    CASE route \in {"parse", "process-flow"} ->
             {[Request(route) EXCEPT !.includeMetrics = b, !.analyzePaths = b,
                                     !.includeMetadata = b, !.analyzeFlow = b,
                                     !.extractPatterns = b] : b \in BOOLEAN}
      [] route = "recommendations" ->
             {[Request(route) EXCEPT !.analysisType = t] : t \in {NoValue, "performance"}}
      [] route = "performance" ->
             {[Request(route) EXCEPT !.expectedDataLoad = l] : l \in {NoValue, "high"}}
      [] route = "understand" ->
             {[Request(route) EXCEPT !.requestType = t, !.format = f] :
                 t \in {NoValue, "implementation_guide", "optimization", "testing_strategy"},
                 f \in {NoValue, "summary", "code_ready"}}
      [] route = "implement" ->
             {[Request(route) EXCEPT !.includeTests = b] : b \in {NoValue, "false"}}
      [] route = "validate-integration" ->
             {[Request(route) EXCEPT !.targetTechnology = t] : t \in {NoValue, "nodejs"}}
      [] OTHER -> {Request(route)}

RouteInputs ==
    {GraphOf(ns, es) : ns \in ParseNodeLists, es \in SeqsUpTo(ParseEdgeSet, MaxRouteEdges)}
    \cup ScenarioFamily
    \cup {ChainDiagram, DiamondDiagram}
    \cup ShapeFamily

NoResponse == [responses |-> <<>>, pending |-> NoResult, escaped |-> FALSE]

\* A GET request has no body; a POST request has one with or without a
\* visualization, or none at all.
InitRoutes ==
    /\ \E route \in Routes :
           \/ /\ route \in GetRoutes
              /\ args = [Request(route) EXCEPT !.bodyGiven = FALSE]
              /\ visualization = NullVisualization
           \/ /\ route \in PostRoutes
              /\ args = [Request(route) EXCEPT !.bodyGiven = FALSE]
              /\ visualization = NullVisualization
           \/ /\ route \in PostRoutes
              /\ args \in RequestsOf(route)
              /\ visualization \in RouteInputs
    /\ called = "none"
    /\ result = NoResponse

\* res.status(status).json(body), res.json(body) for 200
Response(status, body) == [status |-> status, body |-> body]

\* The error name a handler's catch block answers with.
ErrorOf(route) ==
    CASE route = "parse" -> "Parse Error"
      [] route = "validate" -> "Validation Error"
      [] route = "summary" -> "Summary Error"
      [] route = "extract-patterns" -> "Pattern Extraction Error"
      [] route = "process-flow" -> "Analysis Error"
      [] route = "complexity" -> "Complexity Analysis Error"
      [] route = "recommendations" -> "Recommendation Error"
      [] route = "dependencies" -> "Dependency Analysis Error"
      [] route = "performance" -> "Performance Analysis Error"
      [] route = "understand" -> "MCP Understanding Error"
      [] route = "implement" -> "Implementation Error"
      [] route = "capabilities" -> "Capabilities Error"
      [] route = "validate-integration" -> "Validation Error"
      [] route = "extract-requirements" -> "Requirements Error"

\* The catch block, had it passed the error on instead of answering.
Catch_Rethrows(route, message) ==
    [responses |-> <<>>, pending |-> NoResult, escaped |-> TRUE]

\* The catch block of a handler: res.status(500).json({error, message}).
Catch(route, message) ==
    [responses |-> <<Response(500, [error |-> ErrorOf(route), message |-> message])>>,
     pending |-> NoResult, escaped |-> FALSE]

\* return res.status(400).json({error: 'Bad Request', ...})
BadRequest ==
    [responses |-> <<Response(400, [error |-> "Bad Request"])>>,
     pending |-> NoResult, escaped |-> FALSE]

\* if (!visualization), and || !targetTechnology in validate-integration
IsBadRequest(v, a) ==
    \/ v.kind = "null"
    \/ a.route = "validate-integration" /\ Falsy(a.targetTechnology)

\* The service call of a route, settled: threw is "no" or what the
\* rejection says, returned is what the promise resolved to.
ServiceCall(v, a, elapsed) ==
    LET settled(r) == [threw |-> r.threw, returned |-> r]
    IN  CASE a.route = "parse" -> settled(parseVisualization(v, a, elapsed))
          [] a.route = "validate" -> [threw |-> "no", returned |-> validateDiagram(v)]
          [] a.route = "summary" -> settled(generateSummary(a.id))
          [] a.route = "extract-patterns" ->
                 IF v.nodes.kind # "array" \/ ExtractPatternsThrows(v)
                 THEN [threw |-> "TypeError", returned |-> NoResult]
                 ELSE [threw |-> "no", returned |-> extractPatterns(v)]
          [] a.route = "process-flow" -> settled(analyzeFlow(v, a))
          [] a.route = "complexity" -> settled(analyze(v))
          [] a.route = "recommendations" ->
                 settled(generateRecommendations(v, Default(a.analysisType, "all")))
          [] a.route = "dependencies" -> settled(analyzeDependencies(v))
          [] a.route = "performance" -> settled(analyzePerformance(v, a))
          [] a.route = "understand" ->
                 settled(understandDiagram(v, a, Default(a.requestType, "full_analysis"),
                                           Default(a.format, "detailed"), elapsed))
          [] a.route = "implement" ->
                 settled(generateImplementation(
                             v, [includeTests |-> Default(a.includeTests, "true") = "true"]))
          [] a.route = "validate-integration" ->
                 settled(validateIntegration(v, a.targetTechnology, elapsed))
          [] a.route = "extract-requirements" -> settled(extractRequirements(v, elapsed))

\* Building the body of the 200 response throws: dependencies is the object
\* analyzeDependencies returned, and an object has no filter method.
BodyThrows(route, returned) == route = "dependencies"

\* The body of the 200 response.  Timestamps and the scores that
\* ComplexityAnalyzer computes in floating point are left out.
Body(a, returned) ==
    CASE a.route = "parse" ->
             [success |-> TRUE, data |-> returned,
              meta |-> [nodeCount |-> Len(returned.nodes),
                        edgeCount |-> Len(returned.edges),
                        processSteps |-> Len(returned.processSteps),
                        complexity |-> returned.complexity]]
      [] a.route = "validate" ->
             [success |-> TRUE, valid |-> returned.isValid, validation |-> returned]
      [] a.route = "summary" ->
             [success |-> TRUE, diagramId |-> a.id, summary |-> returned]
      [] a.route = "extract-patterns" ->
             [success |-> TRUE, patterns |-> returned, patternCount |-> Len(returned)]
      [] a.route = "process-flow" ->
             [success |-> TRUE, analysis |-> returned,
              insights |-> [totalPaths |-> Len(returned.paths),
                            criticalPath |-> returned.criticalPath,
                            bottlenecks |-> returned.bottlenecks,
                            parallelProcesses |-> returned.parallelProcesses]]
      [] a.route = "complexity" ->
             [success |-> TRUE, complexity |-> returned,
              metrics |-> [factors |-> returned.factors]]
      [] a.route = "recommendations" ->
             [success |-> TRUE, recommendations |-> returned.recommendations,
              summary |->
                  [totalRecommendations |-> Len(returned.recommendations),
                   highPriority |->
                       Len(FilterSeq(returned.recommendations,
                                     {r \in Range(returned.recommendations) :
                                         r.priority = "high"})),
                   categories |-> {r.category : r \in Range(returned.recommendations)}]]
      [] a.route = "performance" ->
             [success |-> TRUE, performance |-> returned,
              bottlenecks |-> returned.bottlenecks,
              optimizations |-> returned.suggestedOptimizations]
      [] a.route = "understand" ->
             [success |-> TRUE, understanding |-> returned,
              mcp_metadata |-> [version |-> "1.0.0",
                                requestType |-> Default(a.requestType, "full_analysis"),
                                format |-> Default(a.format, "detailed"),
                                processingTime |-> returned.processingTime]]
      [] a.route = "implement" ->
             [success |-> TRUE, implementation |-> returned,
              metadata |-> [targetTechnology |-> Default(a.targetTechnology, "nodejs"),
                            implementationType |-> "api",
                            filesGenerated |-> 0,
                            estimatedComplexity |-> returned.complexity]]
      [] a.route = "capabilities" ->
             [success |-> TRUE, capabilities |-> returned, version |-> "1.0.0"]
      [] a.route = "validate-integration" ->
             [success |-> TRUE, validation |-> returned,
              compatible |-> returned.isCompatible, issues |-> returned.issues,
              recommendations |-> returned.recommendations]
      [] a.route = "extract-requirements" ->
             [success |-> TRUE, requirements |-> returned,
              summary |-> [functionalRequirements |-> 0, nonFunctionalRequirements |-> 0,
                           technicalRequirements |-> 0]]

\* What the handler does with the settled call: the catch block for a
\* rejection or for a throw while the body is built, else res.json(body).
AfterAwait(a, pending) ==
    IF pending.threw # "no" THEN Catch(a.route, pending.threw)
    ELSE IF BodyThrows(a.route, pending.returned) THEN Catch(a.route, "TypeError")
    ELSE [responses |-> <<Response(200, Body(a, pending.returned))>>,
          pending |-> NoResult, escaped |-> FALSE]

\* router.get('/capabilities'): no await, the handler runs to its end.
Capabilities ==
    /\ called = "none"
    /\ args.route = "capabilities"
    /\ called' = "returned"
    /\ result' = AfterAwait(args, [threw |-> "no", returned |-> getCapabilities])
    /\ UNCHANGED <<visualization, args>>

\* A handler from its start to its await, or to its return where it
\* answers before: reading a property of a body that is not there throws
\* inside the try, a request without visualization is answered with 400.
Receive ==
    /\ called = "none"
    /\ args.route # "capabilities"
    /\ IF args.route \in PostRoutes /\ ~args.bodyGiven
       THEN /\ called' = "returned"
            /\ result' = Catch(args.route, "TypeError")
            /\ UNCHANGED visualization
       ELSE IF args.route \in PostRoutes /\ IsBadRequest(visualization, args)
       THEN /\ called' = "returned"
            /\ result' = BadRequest
            /\ UNCHANGED visualization
       ELSE /\ called' = "awaiting"
            /\ \E elapsed \in 0..MaxElapsed :
                   result' = [NoResponse EXCEPT
                                 !.pending = ServiceCall(visualization, args, elapsed)]
            /\ visualization' =
                   IF args.route \in {"parse", "understand", "validate-integration",
                                      "extract-requirements"}
                   THEN DiagramAfterParse(visualization) ELSE visualization
    /\ UNCHANGED args

\* The handler from its await to its end.
Resume ==
    /\ called = "awaiting"
    /\ called' = "returned"
    /\ result' = AfterAwait(args, result.pending)
    /\ UNCHANGED <<visualization, args>>

NextRoutes == Capabilities \/ Receive \/ Resume

SpecRoutes == InitRoutes /\ [][NextRoutes]_vars

\* Node.js runs a handler that has not returned on, to its next await or to
\* its end.  The steps there are are those of NextRoutes, each of which moves
\* the handler on, and one is possible exactly while the handler has not
\* returned: the condition is that of weak fairness of NextRoutes, written
\* over the position alone.
HandlerAdvances ==
    /\ called # "returned"
    /\ called' \in {"awaiting", "returned"}
    /\ called' # called

SpecRoutesFair == SpecRoutes /\ WF_called(HandlerAdvances)

Responded == called = "returned"

(***************************************************************************)
(* Claims about the route handlers, checked under SpecRoutes and           *)
(* SpecRoutesFair.                                                         *)
(***************************************************************************)
TheResponse == result.responses[1]

\* What the validator reports for the submitted diagram.
ErrorsReported == validateDiagram(visualization).errors

\* C18: POST /api/diagrams/validate answers 400 whenever the validator
\* reports at least one error for the submitted diagram, and 200 with a body
\* in every other case.
C18_AsStated ==
    (Responded /\ args.route = "validate" /\ args.bodyGiven) =>
        IF ErrorsReported # <<>>
        THEN TheResponse.status = 400
        ELSE TheResponse.status = 200 /\ TheResponse.body.success

\* A diagram the validator finds an error in was answered with 200, the
\* errors in the body under valid: false.
C18_Witness ==
    /\ Responded
    /\ args.route = "validate"
    /\ visualization.kind = "object"
    /\ ErrorsReported # <<>>
    /\ TheResponse.status = 200
    /\ ~TheResponse.body.valid
    /\ TheResponse.body.validation.errors = ErrorsReported

\* What the handler does instead: 400 exactly for a body without a
\* visualization, else 200 with valid telling whether there was no error.
C18_StatusByPresence ==
    (Responded /\ args.route = "validate" /\ args.bodyGiven) =>
        IF visualization.kind = "null"
        THEN TheResponse.status = 400
        ELSE /\ TheResponse.status = 200
             /\ TheResponse.body.valid = (ErrorsReported = <<>>)

\* C19: every request to a diagram, analysis or MCP route, whatever its
\* body, ends with exactly one response, of status 200, 400 or 500, sent by
\* the handler, and no exception leaves the handler: at no time is there a
\* second response or an escaped exception, and the handler returns having
\* sent one.
C19_ExactlyOneResponse ==
    /\ [](/\ Len(result.responses) <= 1
          /\ ~result.escaped
          /\ \A i \in 1..Len(result.responses) :
                 result.responses[i].status \in {200, 400, 500}
          /\ Responded => Len(result.responses) = 1)
    /\ <>Responded

\* The analysis failed, on a path through an id that no node carries, and
\* the handler answered 500 with what the analyzer threw.
C19_Witness ==
    /\ Responded
    /\ args.route = "process-flow"
    /\ HasDanglingEdge
    /\ result.responses = <<Response(500, [error |-> "Analysis Error",
                                           message |-> "Flow analysis failed"])>>

(***************************************************************************)
(* Concurrent requests.  The services are constructed once when the route  *)
(* modules load and every request calls the same instances; a handler      *)
(* gives way at its await, and another request's handler may run there.    *)
(* The variables hold one component per request, and result holds besides  *)
(* the fields of the service instances and the requests that were at their *)
(* await while the handler of another request ran.                         *)
(***************************************************************************)
MaxRequests == 2

RequestIds == 1..MaxRequests

\* The fields of the service instances after construction: the three
\* collaborators MCPIntegrationService creates, and none in the others.
ServiceFields ==
    [mcpService |-> [parser |-> "DiagramParser", processAnalyzer |-> "ProcessAnalyzer",
                     complexityAnalyzer |-> "ComplexityAnalyzer"]]

\* A method of a service, had it kept what it computed in a field of the
\* instance and answered from the field when it is set.
Invoke_KeepsLastResult(services, v, a, elapsed) ==
    IF "lastResult" \in DOMAIN services
    THEN [settled |-> services.lastResult, services |-> services]
    ELSE [settled |-> ServiceCall(v, a, elapsed),
          services |-> [mcpService |-> services.mcpService,
                        lastResult |-> ServiceCall(v, a, elapsed)]]

\* A method of a shared service instance, called by a handler: it computes
\* from its arguments and assigns to no field of the instance.
Invoke(services, v, a, elapsed) ==
    [settled |-> ServiceCall(v, a, elapsed), services |-> services]

\* The requests served together are drawn from this list.
ConcurrentRequests ==
    <<[args |-> Request("extract-patterns"), visualization |-> DiamondDiagram],
      [args |-> Request("understand"), visualization |-> DiamondDiagram],
      [args |-> Request("understand"), visualization |-> ChainDiagram],
      [args |-> [Request("capabilities") EXCEPT !.bodyGiven = FALSE],
       visualization |-> NullVisualization],
      [args |-> Request("complexity"), visualization |-> NullVisualization]>>

\* Any requests of the list, the same one several times too.  The handlers
\* run in any order, so the requests are numbered in the order of the list.
InitConcurrent ==
    /\ \E chosen \in [RequestIds -> 1..Len(ConcurrentRequests)] :
           /\ \A q, r \in RequestIds : q < r => chosen[q] <= chosen[r]
           /\ args = [r \in RequestIds |-> ConcurrentRequests[chosen[r]].args]
           /\ visualization =
                  [r \in RequestIds |-> ConcurrentRequests[chosen[r]].visualization]
    /\ called = [r \in RequestIds |-> "none"]
    /\ result = [responses |-> [r \in RequestIds |-> <<>>],
                 pending |-> [r \in RequestIds |-> NoResult],
                 services |-> ServiceFields,
                 overlapped |-> {}]

\* The requests that have been at their await while another request's
\* handler ran, after a step of the handler of r.
Overlapped(r) ==
    result.overlapped \cup {q \in RequestIds \ {r} : called[q] = "awaiting"}

\* What a handler that has run to its end leaves: its responses, and
\* nothing awaited.
Returned(r, outcome) ==
    [result EXCEPT !.responses[r] = outcome.responses, !.pending[r] = NoResult,
                   !.overlapped = Overlapped(r)]

\* GET /capabilities for one of the requests.
ConcurrentCapabilities ==
    \E r \in RequestIds :
        /\ called[r] = "none"
        /\ args[r].route = "capabilities"
        /\ called' = [called EXCEPT ![r] = "returned"]
        /\ result' = Returned(r, AfterAwait(args[r], [threw |-> "no",
                                                      returned |-> getCapabilities]))
        /\ UNCHANGED <<visualization, args>>

\* The handler of one of the requests from its start to its await: the
\* awaited value is a const of that invocation of the handler.
ConcurrentReceive ==
    \E r \in RequestIds :
        /\ called[r] = "none"
        /\ args[r].route # "capabilities"
        /\ IF args[r].route \in PostRoutes /\ ~args[r].bodyGiven
           THEN /\ called' = [called EXCEPT ![r] = "returned"]
                /\ result' = Returned(r, Catch(args[r].route, "TypeError"))
                /\ UNCHANGED visualization
           ELSE IF args[r].route \in PostRoutes /\ IsBadRequest(visualization[r], args[r])
           THEN /\ called' = [called EXCEPT ![r] = "returned"]
                /\ result' = Returned(r, BadRequest)
                /\ UNCHANGED visualization
           ELSE /\ called' = [called EXCEPT ![r] = "awaiting"]
                /\ \E elapsed \in 0..MaxElapsed :
                       LET invoked == Invoke(result.services, visualization[r], args[r],
                                             elapsed)
                       IN  result' = [result EXCEPT !.pending[r] = invoked.settled,
                                                    !.services = invoked.services,
                                                    !.overlapped = Overlapped(r)]
                /\ visualization' =
                       [visualization EXCEPT ![r] =
                           IF args[r].route \in {"parse", "understand"}
                           THEN DiagramAfterParse(visualization[r])
                           ELSE visualization[r]]
        /\ UNCHANGED args

\* The handler of one of the requests from its await to its end.
ConcurrentResume ==
    \E r \in RequestIds :
        /\ called[r] = "awaiting"
        /\ called' = [called EXCEPT ![r] = "returned"]
        /\ result' = Returned(r, AfterAwait(args[r], result.pending[r]))
        /\ UNCHANGED <<visualization, args>>

NextConcurrent == ConcurrentCapabilities \/ ConcurrentReceive \/ ConcurrentResume

SpecConcurrent == InitConcurrent /\ [][NextConcurrent]_vars

(***************************************************************************)
(* Claims about concurrent requests, checked under SpecConcurrent.         *)
(***************************************************************************)
\* The responses of a request served alone: what its handler sends when no
\* other request is there, for each time the service may take.
ServedAlone(v, a) ==
    IF a.route = "capabilities"
    THEN {AfterAwait(a, [threw |-> "no", returned |-> getCapabilities]).responses}
    ELSE IF a.route \in PostRoutes /\ ~a.bodyGiven
    THEN {Catch(a.route, "TypeError").responses}
    ELSE IF a.route \in PostRoutes /\ IsBadRequest(v, a)
    THEN {BadRequest.responses}
    ELSE {AfterAwait(a, ServiceCall(v, a, elapsed)).responses :
             elapsed \in 0..MaxElapsed}

\* C20: in whatever order the handlers of concurrent requests run, each
\* request that has been answered got a response it gets when served alone,
\* and the fields of the shared service instances are those they were
\* constructed with.
C20_Independent ==
    /\ \A r \in RequestIds :
           called[r] = "returned" =>
               result.responses[r] \in ServedAlone(visualization[r], args[r])
    /\ result.services = ServiceFields

\* Two requests to /understand with different diagrams, the second served
\* from start to end while the first was at its await; both were answered
\* with 200, each with the understanding of its own diagram.
C20_Witness ==
    /\ result.overlapped = {1}
    /\ args[1].route = "understand" /\ args[2].route = "understand"
    /\ visualization[1] # visualization[2]
    /\ \A r \in {1, 2} :
           /\ Len(result.responses[r]) = 1
           /\ result.responses[r][1].status = 200
    /\ result.responses[1] # result.responses[2]

(***************************************************************************)
(* The traversals, step by step.  Each of them is a recursive function     *)
(* that loops over the outgoing edges of a node; here the call stack is    *)
(* explicit, a frame for every call that has passed its entry tests, and a *)
(* step is one call, or one return from a frame whose loop is over.        *)
(* args names the traversal and its startId and endId, result holds the    *)
(* stack, the calls the outer forEach has still to make (roots), the set   *)
(* shared by all calls (reachable, or visited of detectCycles) and the     *)
(* recursionStack of detectCycles.                                         *)
(***************************************************************************)
MaxStack == 6

MaxTraversalEdges == 3

Traversals ==
    {"findReachableNodes", "detectCycles", "findPathsBetweenNodes",
     "countPathsBetween", "calculateMaxDepth", "calculateNodeLevels"}

\* The traversals whose visited set is one Set for all calls; the others
\* hand a copy (new Set(visited)) to every call.
SharedVisited == {"findReachableNodes", "detectCycles"}

IdsOf(nodes) == [i \in 1..Len(nodes) |-> nodes[i].id]

\* The calls of the outer loop: startNodes.forEach, nodes.forEach, or the
\* one call of the caller.
RootsOf(a, nodes, edges) ==
    CASE a.traversal \in {"findReachableNodes", "calculateNodeLevels"} ->
             IdsOf(FilterSeq(nodes, {n \in Range(nodes) : n.type = "start"}))
      [] a.traversal = "detectCycles" -> IdsOf(nodes)
      [] a.traversal = "calculateMaxDepth" ->
             IdsOf(FilterSeq(nodes,
                             {n \in Range(nodes) :
                                 \/ n.type = "start"
                                 \/ ~\E e \in Range(edges) : e.target = n.id}))
      [] OTHER -> <<a.startId>>

\* The entry tests, had the test of the visited set been left out where
\* every call gets its own copy of the set.
ReturnsAtOnce_NoVisitedTest(a, nodeId, visited, st) ==
    CASE a.traversal = "findReachableNodes" -> nodeId \in st.shared
      [] a.traversal = "detectCycles" ->
             nodeId \in st.recursionStack \/ nodeId \in st.shared
      [] a.traversal \in {"findPathsBetweenNodes", "countPathsBetween"} ->
             nodeId = a.endId
      [] OTHER -> FALSE

\* The tests at the entry of a call that make it return before its loop.
ReturnsAtOnce(a, nodeId, visited, st) ==
    CASE a.traversal = "findReachableNodes" -> nodeId \in st.shared
      [] a.traversal = "detectCycles" ->
             nodeId \in st.recursionStack \/ nodeId \in st.shared
      [] a.traversal \in {"findPathsBetweenNodes", "countPathsBetween"} ->
             nodeId \in visited \/ nodeId = a.endId
      [] OTHER -> nodeId \in visited

\* A call of the traversal on nodeId with the visited set it is handed:
\* back at once, or a new frame on the stack with nodeId marked.
CallOn(a, nodeId, visited, st, edges) ==
    IF ReturnsAtOnce(a, nodeId, visited, st) THEN st
    ELSE [st EXCEPT
             !.stack = Append(@, [nodeId |-> nodeId,
                                  visited |-> IF a.traversal \in SharedVisited THEN {}
                                              ELSE visited \cup {nodeId},
                                  outgoing |-> OutgoingEdges(edges, nodeId),
                                  next |-> 1]),
             !.shared = IF a.traversal \in SharedVisited THEN @ \cup {nodeId} ELSE @,
             !.recursionStack = IF a.traversal = "detectCycles"
                                THEN @ \cup {nodeId} ELSE @]

\* Every edge between the three ids, self-loops included, in a fixed order.
TraversalEdges ==
    <<PlainEdge("a", "a"), PlainEdge("a", "b"), PlainEdge("a", "c"),
      PlainEdge("b", "a"), PlainEdge("b", "b"), PlainEdge("b", "c"),
      PlainEdge("c", "a"), PlainEdge("c", "b"), PlainEdge("c", "c")>>

\* The edge lists of up to MaxTraversalEdges of them, and the list of all.
TraversalEdgeLists ==
    {FilterSeq(TraversalEdges, chosen) :
        chosen \in {s \in SUBSET Range(TraversalEdges) :
                       Cardinality(s) <= MaxTraversalEdges}}
    \cup {TraversalEdges}

\* With one start node, with none, and with an id that only edges name.
TraversalNodeLists ==
    {<<PlainNode("a", "start"), PlainNode("b", "database"), PlainNode("c", "end")>>,
     <<PlainNode("a", "database"), PlainNode("b", "database"), PlainNode("c", "database")>>,
     <<PlainNode("b", "start"), PlainNode("a", "start")>>}

TraversalArgs ==
    {[traversal |-> t, startId |-> NoValue, endId |-> NoValue] :
        t \in Traversals \ {"findPathsBetweenNodes", "countPathsBetween"}}
    \cup {[traversal |-> t, startId |-> ends[1], endId |-> ends[2]] :
             t \in {"findPathsBetweenNodes", "countPathsBetween"},
             ends \in {<<"a", "c">>, <<"b", "b">>, <<"c", "a">>}}

NotStarted == [stack |-> <<>>, roots |-> <<>>, shared |-> {}, recursionStack |-> {}]

InitTraversal ==
    /\ visualization \in
           {GraphOf(ns, es) : ns \in TraversalNodeLists, es \in TraversalEdgeLists}
           \cup {ChainDiagram, DiamondDiagram}
    /\ args \in TraversalArgs
    /\ called = "none"
    /\ result = NotStarted

\* The traversal is called: its outer loop is about to start.
Begin ==
    /\ called = "none"
    /\ called' = "running"
    /\ result' = [NotStarted EXCEPT
                     !.roots = RootsOf(args, visualization.nodes.items,
                                       visualization.edges.items)]
    /\ UNCHANGED <<visualization, args>>

\* The outer loop makes its next call, with a fresh visited set; nodes.forEach
\* of detectCycles makes it only for a node not yet visited.
CallRoot ==
    /\ called = "running"
    /\ result.stack = <<>>
    /\ result.roots # <<>>
    /\ LET rest == [result EXCEPT !.roots = Tail(@)]
       IN  result' =
               IF args.traversal = "detectCycles" /\ Head(result.roots) \in result.shared
               THEN rest
               ELSE CallOn(args, Head(result.roots), {}, rest, visualization.edges.items)
    /\ UNCHANGED <<visualization, args, called>>

\* outgoing.forEach: the frame on top calls the traversal on the target of
\* its next outgoing edge.
Descend ==
    /\ called = "running"
    /\ result.stack # <<>>
    /\ Len(result.stack) < MaxStack
    /\ LET top == result.stack[Len(result.stack)]
       IN  /\ top.next <= Len(top.outgoing)
           /\ result' = CallOn(args, top.outgoing[top.next].target, top.visited,
                               [result EXCEPT !.stack[Len(result.stack)].next = @ + 1],
                               visualization.edges.items)
    /\ UNCHANGED <<visualization, args, called>>

\* The loop of the frame on top is over and the call returns; dfs of
\* detectCycles takes its node off recursionStack.
Ascend ==
    /\ called = "running"
    /\ result.stack # <<>>
    /\ LET top == result.stack[Len(result.stack)]
       IN  /\ top.next > Len(top.outgoing)
           /\ result' = [result EXCEPT
                            !.stack = SubSeq(@, 1, Len(@) - 1),
                            !.recursionStack = @ \ {top.nodeId}]
    /\ UNCHANGED <<visualization, args, called>>

\* The outer loop is over: the traversal returns.
Finish ==
    /\ called = "running"
    /\ result.stack = <<>>
    /\ result.roots = <<>>
    /\ called' = "returned"
    /\ UNCHANGED <<visualization, args, result>>

NextTraversal == Begin \/ CallRoot \/ Descend \/ Ascend \/ Finish

SpecTraversal == InitTraversal /\ [][NextTraversal]_vars

\* A synchronous function that has been called runs on until it returns.
SpecTraversalFair == SpecTraversal /\ WF_vars(NextTraversal)

(***************************************************************************)
(* Claims about the traversals, checked under SpecTraversalFair.           *)
(***************************************************************************)
\* The ids a traversal can meet: those of the nodes and the ends of edges.
IdsMet ==
    {visualization.nodes.items[i].id : i \in 1..Len(visualization.nodes.items)}
    \cup {visualization.edges.items[i].target : i \in 1..Len(visualization.edges.items)}
    \cup {args.startId}

\* C21: every traversal returns after finitely many steps on every finite
\* graph, cycles and self-loops included: the calls on the stack are of
\* different nodes, so the recursion is never deeper than there are ids, and
\* the traversal returns.
C21_Terminates ==
    /\ [](/\ Len(result.stack) <= Cardinality(IdsMet)
          /\ Len(result.stack) < MaxStack
          /\ \A i, j \in 1..Len(result.stack) :
                 i # j => result.stack[i].nodeId # result.stack[j].nodeId)
    /\ <>(called = "returned")

\* countPathsBetween has returned on the graph with every edge, self-loops
\* included.
C21_Witness ==
    /\ called = "returned"
    /\ args.traversal = "countPathsBetween"
    /\ visualization.edges.items = TraversalEdges

(***************************************************************************)
(* The structural metrics one at a time: depth, width and cyclomatic       *)
(* complexity as ComplexityAnalyzer computes them for its structural       *)
(* metrics, and width and cyclomatic complexity as ProcessAnalyzer         *)
(* computes them for its flow metrics.                                     *)
(***************************************************************************)
MetricNodeLists ==
    {<<PlainNode("a", "start"), PlainNode("b", "decision"), PlainNode("c", "end")>>,
     <<PlainNode("a", "database"), PlainNode("b", "database"), PlainNode("c", "database")>>,
     <<PlainNode("a", "start"), PlainNode("b", "start"), PlainNode("c", "decision")>>,
     <<PlainNode("a", "start"), PlainNode("b", "decision")>>}

InitMetrics ==
    /\ visualization \in
           {GraphOf(ns, es) : ns \in MetricNodeLists, es \in TraversalEdgeLists}
           \cup {ChainDiagram, DiamondDiagram}
    /\ args = NoArgs
    /\ called = "none"
    /\ result = NoResult

\* ComplexityAnalyzer: this.calculateMaxDepth(nodes, edges)
CalculateMaxDepth ==
    /\ called = "none"
    /\ called' = "ComplexityAnalyzer.calculateMaxDepth"
    /\ result' = Complexity_calculateMaxDepth(visualization.nodes.items,
                                              visualization.edges.items)
    /\ UNCHANGED <<visualization, args>>

\* ComplexityAnalyzer: this.calculateMaxWidth(nodes, edges)
CalculateMaxWidth ==
    /\ called = "none"
    /\ called' = "ComplexityAnalyzer.calculateMaxWidth"
    /\ result' = Complexity_calculateMaxWidth(visualization.nodes.items,
                                              visualization.edges.items)
    /\ UNCHANGED <<visualization, args>>

\* ProcessAnalyzer: this.calculateMaxWidth(nodes, edges)
FlowMaxWidth ==
    /\ called = "none"
    /\ called' = "ProcessAnalyzer.calculateMaxWidth"
    /\ result' = calculateMaxWidth(visualization.nodes.items, visualization.edges.items)
    /\ UNCHANGED <<visualization, args>>

\* ComplexityAnalyzer: this.calculateCyclomaticComplexity(nodes, edges)
CalculateCyclomaticComplexity ==
    /\ called = "none"
    /\ called' = "ComplexityAnalyzer.calculateCyclomaticComplexity"
    /\ result' = Complexity_calculateCyclomaticComplexity(visualization.nodes.items,
                                                          visualization.edges.items)
    /\ UNCHANGED <<visualization, args>>

\* ProcessAnalyzer: this.calculateCyclomaticComplexity(edges, nodes)
FlowCyclomaticComplexity ==
    /\ called = "none"
    /\ called' = "ProcessAnalyzer.calculateCyclomaticComplexity"
    /\ result' = calculateCyclomaticComplexity(visualization.edges.items,
                                               visualization.nodes.items)
    /\ UNCHANGED <<visualization, args>>

NextMetrics ==
    \/ CalculateMaxDepth
    \/ CalculateMaxWidth
    \/ FlowMaxWidth
    \/ CalculateCyclomaticComplexity
    \/ FlowCyclomaticComplexity

SpecMetrics == InitMetrics /\ [][NextMetrics]_vars

(***************************************************************************)
(* Claims about the structural metrics, checked under SpecMetrics.         *)
(***************************************************************************)
NodeIds == {GraphNodes[i].id : i \in 1..Len(GraphNodes)}

\* The ids of the graph: those of the nodes and the ends of the edges.
GraphIds ==
    NodeIds \cup {GraphEdges[i].source : i \in 1..Len(GraphEdges)}
            \cup {GraphEdges[i].target : i \in 1..Len(GraphEdges)}

\* The nodes typed start or without incoming edge.
StartLikeIds ==
    {GraphNodes[i].id : i \in {j \in 1..Len(GraphNodes) :
        \/ GraphNodes[j].type = "start"
        \/ ~\E k \in 1..Len(GraphEdges) : GraphEdges[k].target = GraphNodes[j].id}}

\* The simple forward paths that begin at one of the ids of S.
SimplePathsFrom(S) ==
    {p \in UNION {[1..n -> GraphIds] : n \in 1..Cardinality(GraphIds)} :
        /\ p[1] \in S
        /\ \A i, j \in 1..Len(p) : i # j => p[i] # p[j]
        /\ \A k \in 1..(Len(p) - 1) : IsEdge(p[k], p[k + 1])}

\* The number of edges of the longest of the paths, 0 when there is none.
LongestOf(paths) ==
    LET lengths == {0} \cup {Len(p) - 1 : p \in paths}
    IN  CHOOSE m \in lengths : \A l \in lengths : l <= m

\* C22: ComplexityAnalyzer.calculateMaxDepth returns the number of edges of
\* the longest simple forward path that begins at a start-like node, on
\* every graph, cyclic ones included, and 0 only when no such path has an
\* edge.
C22_AsStated ==
    (called = "ComplexityAnalyzer.calculateMaxDepth") =>
        result = LongestOf(SimplePathsFrom(StartLikeIds))

\* On a -> b, b -> a with a the start node the depth returned is 0, and the
\* path a -> b has one edge.
C22_Witness ==
    /\ called = "ComplexityAnalyzer.calculateMaxDepth"
    /\ GraphEdges = <<PlainEdge("a", "b"), PlainEdge("b", "a")>>
    /\ GraphNodes[1].type = "start"
    /\ result = 0
    /\ LongestOf(SimplePathsFrom(StartLikeIds)) = 1

\* What calculateMaxDepth returns: the number of edges of the longest
\* simple forward path from a start-like node to an id without outgoing
\* edge, which is the longest of all on a graph without cycle.
C22_LongestToSink ==
    (called = "ComplexityAnalyzer.calculateMaxDepth") =>
        /\ result = LongestOf({p \in SimplePathsFrom(StartLikeIds) :
                                  ~\E k \in 1..Len(GraphEdges) :
                                      GraphEdges[k].source = p[Len(p)]})
        /\ ~HasDirectedCycle => result = LongestOf(SimplePathsFrom(StartLikeIds))

\* The greatest position, counted from 0, at which id occurs on a simple
\* path from a start-typed node; it is the position of id at the end of a
\* path, every prefix of a simple path being one.
LevelOf(id) ==
    LongestOf({p \in SimplePathsFrom(StartIds) : p[Len(p)] = id})

\* The ids that lie on a simple path from a start-typed node.
Leveled == {p[Len(p)] : p \in SimplePathsFrom(StartIds)}

\* The greatest number of the ids of S that share a level, at least 1.
WidthOver(S) ==
    LET counts == {1} \cup {Cardinality({k \in S \cap Leveled : LevelOf(k) = LevelOf(id)}) :
                               id \in S \cap Leveled}
    IN  CHOOSE m \in counts : \A c \in counts : c <= m

\* C23: the width metric of the structural metrics and of the flow metrics
\* is the greatest number of nodes that share a level, the level of a node
\* being its greatest position on a simple path from a start node, and is
\* at least 1.
C23_AsStated ==
    (called \in {"ComplexityAnalyzer.calculateMaxWidth",
                 "ProcessAnalyzer.calculateMaxWidth"}) =>
        /\ result = WidthOver(NodeIds)
        /\ result >= 1

\* On a -> b, a -> c, b -> c the levels are 0, 1 and 2, one node each, and
\* the width of the flow metrics is 2, the number of edges that leave a.
C23_Witness ==
    /\ called = "ProcessAnalyzer.calculateMaxWidth"
    /\ GraphNodes[1].type = "start"
    /\ GraphEdges = <<PlainEdge("a", "b"), PlainEdge("a", "c"), PlainEdge("b", "c")>>
    /\ WidthOver(NodeIds) = 1
    /\ result = 2

\* What the two compute.  ComplexityAnalyzer: the width by levels over the
\* ids it reaches, which are the nodes when every edge ends at a node.
\* ProcessAnalyzer: the greatest number of edges that leave one node, 1 when
\* no node has two.
C23_WidthComputed ==
    /\ (called = "ComplexityAnalyzer.calculateMaxWidth") =>
           /\ result = WidthOver(GraphIds)
           /\ GraphIds \subseteq NodeIds => result = WidthOver(NodeIds)
    /\ (called = "ProcessAnalyzer.calculateMaxWidth") =>
           LET counts == {1} \cup {Cardinality({k \in 1..Len(GraphEdges) :
                                                   GraphEdges[k].source = id}) :
                                      id \in NodeIds}
           IN  result = CHOOSE m \in counts : \A c \in counts : c <= m

\* The ids joined to one of S by an edge, in either direction.
Neighbours(S) ==
    {GraphEdges[i].target : i \in {j \in 1..Len(GraphEdges) : GraphEdges[j].source \in S}}
    \cup {GraphEdges[i].source : i \in {j \in 1..Len(GraphEdges) : GraphEdges[j].target \in S}}

RECURSIVE ComponentOf(_)
ComponentOf(S) ==
    IF Neighbours(S) \subseteq S THEN S ELSE ComponentOf(S \cup Neighbours(S))

\* The number of connected components of the diagram's graph.
ConnectedComponents == Cardinality({ComponentOf({id}) : id \in NodeIds})

DecisionNodeCount ==
    Cardinality({i \in 1..Len(GraphNodes) : GraphNodes[i].type = "decision"})

\* C24: the cyclomatic complexity metric is edges - nodes + 2 P + D, with D
\* the number of decision nodes and P the number of connected components,
\* on every diagram, those of several components included.
C24_AsStated ==
    (called \in {"ComplexityAnalyzer.calculateCyclomaticComplexity",
                 "ProcessAnalyzer.calculateCyclomaticComplexity"}) =>
        result = Len(GraphEdges) - Len(GraphNodes) + 2 * ConnectedComponents
                     + DecisionNodeCount

\* Three nodes, one of them a decision, and the one edge a -> b: two
\* components, so 1 - 3 + 4 + 1 = 3, and the metric is 1.
C24_Witness ==
    /\ called = "ComplexityAnalyzer.calculateCyclomaticComplexity"
    /\ Len(GraphNodes) = 3
    /\ GraphEdges = <<PlainEdge("a", "b")>>
    /\ DecisionNodeCount = 1
    /\ ConnectedComponents = 2
    /\ result = 1

\* What both compute: the formula with P = 1 whatever the diagram, which is
\* the claimed value exactly for a diagram of one component.
C24_OneComponentAssumed ==
    (called \in {"ComplexityAnalyzer.calculateCyclomaticComplexity",
                 "ProcessAnalyzer.calculateCyclomaticComplexity"}) =>
        /\ result = Len(GraphEdges) - Len(GraphNodes) + 2 + DecisionNodeCount
        /\ ConnectedComponents = 1 =>
               result = Len(GraphEdges) - Len(GraphNodes) + 2 * ConnectedComponents
                            + DecisionNodeCount

(***************************************************************************)
(* The fallback of reachability, checked under SpecValidate.               *)
(***************************************************************************)
\* The ids of the nodes that no edge leads to.
SourceIds ==
    {GraphNodes[i].id : i \in {j \in 1..Len(GraphNodes) :
        ~\E k \in 1..Len(GraphEdges) : GraphEdges[k].target = GraphNodes[j].id}}

UnreachableReported ==
    {result.warnings[i].nodeId :
        i \in {j \in 1..Len(result.warnings) : result.warnings[j].type = "unreachable_node"}}

\* C25: when a diagram has no start-typed node, reachability is computed
\* from the nodes without incoming edge: a node reachable by forward edges
\* from such a node is in the reachable set and validation does not report
\* it as unreachable_node.
C25_AsStated ==
    (Validated /\ ListsGiven /\ StartIds = {}) =>
        \A i \in 1..Len(GraphNodes) :
            GraphNodes[i].id \in ForwardClosure(SourceIds) =>
                /\ GraphNodes[i].id \in findReachableNodes(GraphNodes, GraphEdges)
                /\ GraphNodes[i].id \notin UnreachableReported

\* Two database nodes a and b with the edge a -> b and no start node: a has
\* no incoming edge and b follows it, the reachable set is empty and both
\* are reported as unreachable.
C25_Witness ==
    /\ Validated
    /\ StartIds = {}
    /\ Len(GraphNodes) = 2
    /\ GraphNodes[1].id = "a" /\ GraphNodes[2].id = "b"
    /\ GraphEdges = <<Edge("e1", "a", "b", NoValue)>>
    /\ SourceIds = {"a"}
    /\ findReachableNodes(GraphNodes, GraphEdges) = {}
    /\ UnreachableReported = {"a", "b"}

\* What the validator does: it starts from the start-typed nodes only, so
\* without one nothing is reachable and every node is reported.
C25_NoFallback ==
    (Validated /\ ListsGiven /\ StartIds = {}) =>
        /\ findReachableNodes(GraphNodes, GraphEdges) = {}
        /\ UnreachableReported = {GraphNodes[i].id : i \in 1..Len(GraphNodes)}

(***************************************************************************)
(* The dependencies route, checked under SpecRoutes.                       *)
(***************************************************************************)
\* nodes and edges are arrays and every edge joins two of the nodes.
WellFormedDiagram ==
    /\ visualization.kind = "object"
    /\ visualization.nodes.kind = "array"
    /\ visualization.edges.kind = "array"
    /\ \A i \in 1..Len(GraphEdges) :
           {GraphEdges[i].source, GraphEdges[i].target} \subseteq NodeIds

\* C26: POST /api/analysis/dependencies with a well-formed diagram answers
\* 200 with success: true, the dependency analysis and its insights.
C26_AsStated ==
    (Responded /\ args.route = "dependencies" /\ args.bodyGiven /\ WellFormedDiagram) =>
        /\ TheResponse.status = 200
        /\ TheResponse.body.success

\* The chain diagram was sent, analyzeDependencies returned its analysis,
\* and the handler answered 500 from its catch block.
C26_Witness ==
    /\ Responded
    /\ args.route = "dependencies"
    /\ visualization = ChainDiagram
    /\ analyzeDependencies(visualization).threw = "no"
    /\ Len(analyzeDependencies(visualization).dependencies) = 3
    /\ result.responses = <<Response(500, [error |-> "Dependency Analysis Error",
                                           message |-> "TypeError"])>>

\* What the route does: 400 without a visualization, else 500, whether
\* the analysis succeeded or not.
C26_NeverOk ==
    (Responded /\ args.route = "dependencies") =>
        TheResponse.status = (IF args.bodyGiven /\ visualization.kind = "null"
                              THEN 400 ELSE 500)

(***************************************************************************)
(* analyzeFlow on diagrams with two routes from the start to the end, one  *)
(* through d and one through u1 and u2, the three nodes of any of three    *)
(* types, with any of the five edges left out and either route first.      *)
(***************************************************************************)
TwoRouteNodes(td, tu1, tu2) ==
    <<PlainNode("s", "start"), PlainNode("d", td), PlainNode("u1", tu1),
      PlainNode("u2", tu2), PlainNode("e", "end")>>

ShortRouteFirst ==
    <<PlainEdge("s", "d"), PlainEdge("d", "e"),
      PlainEdge("s", "u1"), PlainEdge("u1", "u2"), PlainEdge("u2", "e")>>

LongRouteFirst ==
    <<PlainEdge("s", "u1"), PlainEdge("u1", "u2"), PlainEdge("u2", "e"),
      PlainEdge("s", "d"), PlainEdge("d", "e")>>

TwoRouteInputs ==
    {GraphOf(TwoRouteNodes(td, tu1, tu2), FilterSeq(es, kept)) :
        td \in {"database", "user-action", "decision"},
        tu1 \in {"database", "user-action", "decision"},
        tu2 \in {"database", "user-action", "decision"},
        es \in {ShortRouteFirst, LongRouteFirst},
        kept \in SUBSET Range(ShortRouteFirst)}
    \cup {ChainDiagram, DiamondDiagram}

InitTwoRoutes ==
    /\ visualization \in TwoRouteInputs
    /\ args \in FlowOptions
    /\ called = "none"
    /\ result = NoResult

SpecTwoRoutes == InitTwoRoutes /\ [][NextFlow]_vars

(***************************************************************************)
(* Claims about the critical path, checked under SpecTwoRoutes.            *)
(***************************************************************************)
\* C27: analyzeFlow's criticalPath is the longest execution path: null
\* exactly when no start-to-end path was enumerated, and otherwise one of
\* the enumerated paths, than which no enumerated path has more nodes.
C27_AsStated ==
    (FlowAnalyzed /\ result.threw = "no") =>
        /\ (result.criticalPath = <<>>) <=> (result.paths = <<>>)
        /\ result.paths # <<>> =>
               /\ \E i \in 1..Len(result.paths) :
                      result.paths[i].nodes = result.criticalPath[1].nodes
               /\ \A i \in 1..Len(result.paths) :
                      Len(result.paths[i].nodes) <= Len(result.criticalPath[1].nodes)

\* Two paths, s -> d -> e through a database node and s -> u1 -> u2 -> e
\* through two user actions: the critical path is the one of three nodes.
C27_Witness ==
    /\ FlowAnalyzed
    /\ result.threw = "no"
    /\ Len(result.paths) = 2
    /\ result.paths[1].nodes = <<"s", "d", "e">>
    /\ result.paths[2].nodes = <<"s", "u1", "u2", "e">>
    /\ result.paths[1].complexity = 4 /\ result.paths[2].complexity = 4
    /\ result.criticalPath[1].nodes = <<"s", "d", "e">>

\* What findCriticalPath returns: null exactly for no path, else the first
\* of the enumerated paths of the highest complexity.
C27_HighestComplexity ==
    (FlowAnalyzed /\ result.threw = "no") =>
        /\ (result.criticalPath = <<>>) <=> (result.paths = <<>>)
        /\ result.paths # <<>> =>
               \E i \in 1..Len(result.paths) :
                   /\ result.paths[i].nodes = result.criticalPath[1].nodes
                   /\ \A j \in 1..Len(result.paths) :
                          result.paths[j].complexity <= result.paths[i].complexity
                   /\ \A j \in 1..(i - 1) :
                          result.paths[j].complexity < result.paths[i].complexity

(***************************************************************************)
(* The process steps of parseVisualization, checked under SpecReadOnly.    *)
(***************************************************************************)
Parsed == called = "parseVisualization" /\ result.threw = "no"

\* The ids of the steps before step i that have its semanticRole, in order.
RECURSIVE EarlierOfRole(_, _, _)
EarlierOfRole(steps, i, j) ==
    IF j >= i THEN <<>>
    ELSE (IF steps[j].semanticRole = steps[i].semanticRole THEN <<steps[j].id>> ELSE <<>>)
         \o EarlierOfRole(steps, i, j + 1)

\* C28: in the processSteps of parseVisualization the step numbers are
\* 1..n in order, each node id occurs at most once, and the dependencies of
\* a step are exactly the ids of the steps with a smaller step number that
\* have the same semanticRole.
C28_AsStated ==
    Parsed =>
        LET steps == result.processSteps
        IN  /\ \A i \in 1..Len(steps) : steps[i].stepNumber = i
            /\ \A i, j \in 1..Len(steps) : i # j => steps[i].id # steps[j].id
            /\ \A i \in 1..Len(steps) :
                   steps[i].dependencies = EarlierOfRole(steps, i, 1)

\* Three steps, two of them database nodes with the role data_persistence:
\* the later of the two lists no dependency.
C28_Witness ==
    /\ Parsed
    /\ Len(result.processSteps) = 3
    /\ result.processSteps[1].semanticRole = "data_persistence"
    /\ result.processSteps[2].semanticRole = "data_persistence"
    /\ EarlierOfRole(result.processSteps, 2, 1) = <<result.processSteps[1].id>>
    /\ result.processSteps[2].dependencies = <<>>

\* What extractProcessSteps produces: numbered steps of different ids, each
\* with an empty dependencies list.
C28_NoDependencies ==
    Parsed =>
        LET steps == result.processSteps
        IN  /\ \A i \in 1..Len(steps) : steps[i].stepNumber = i
            /\ \A i, j \in 1..Len(steps) : i # j => steps[i].id # steps[j].id
            /\ \A i \in 1..Len(steps) : steps[i].dependencies = <<>>

(***************************************************************************)
(* The four cycle detectors run on one diagram, in any order; result maps  *)
(* the name of each detector that has run to what it returned.             *)
(***************************************************************************)
Detectors == {"DiagramValidator.detectCycles", "ComplexityAnalyzer.detectCycles",
              "DiagramParser.detectCircularFlow",
              "RecommendationEngine.detectCircularDependencies"}

InitDetectors ==
    /\ visualization \in
           {GraphOf(ns, es) : ns \in NodeOrders, es \in GraphEdgeLists}
           \cup {ChainDiagram, DiamondDiagram}
    /\ args = NoArgs
    /\ called = "none"
    /\ result = NoResult

HasRun(detector) == detector \in DOMAIN result

Detected(detector, returned) ==
    /\ ~HasRun(detector)
    /\ called' = "detector"
    /\ result' = [d \in DOMAIN result \cup {detector} |->
                     IF d = detector THEN returned ELSE result[d]]
    /\ UNCHANGED <<visualization, args>>

\* DiagramValidator: this.detectCycles(nodes, edges)
ValidatorDetectCycles ==
    Detected("DiagramValidator.detectCycles",
             detectCycles(visualization.nodes.items, visualization.edges.items))

\* ComplexityAnalyzer: this.detectCycles(nodes, edges)
ComplexityDetectCycles ==
    Detected("ComplexityAnalyzer.detectCycles",
             Complexity_detectCycles(visualization.nodes.items, visualization.edges.items))

\* DiagramParser: this.detectCircularFlow(nodes, edges)
ParserDetectCircularFlow ==
    Detected("DiagramParser.detectCircularFlow",
             detectCircularFlow(visualization.nodes.items, visualization.edges.items))

\* RecommendationEngine: this.detectCircularDependencies(nodes, edges)
EngineDetectCircularDependencies ==
    Detected("RecommendationEngine.detectCircularDependencies",
             detectCircularDependencies(visualization.nodes.items, visualization.edges.items))

NextDetectors ==
    \/ ValidatorDetectCycles
    \/ ComplexityDetectCycles
    \/ ParserDetectCircularFlow
    \/ EngineDetectCircularDependencies

SpecDetectors == InitDetectors /\ [][NextDetectors]_vars

\* What a detector that has run says of the diagram.
SaysCyclic(detector) ==
    CASE detector = "DiagramValidator.detectCycles" -> Len(result[detector]) > 0
      [] detector = "ComplexityAnalyzer.detectCycles" -> result[detector] > 0
      [] detector = "DiagramParser.detectCircularFlow" -> result[detector]
      [] OTHER -> Len(result[detector]) > 0

UniqueIdsValidEndpoints ==
    /\ \A i, j \in 1..Len(GraphNodes) : i # j => GraphNodes[i].id # GraphNodes[j].id
    /\ \A e \in Range(GraphEdges) : e.source \in NodeIds /\ e.target \in NodeIds

\* C29: on a graph with unique node ids whose edge endpoints are all node
\* ids, DiagramValidator.detectCycles is non-empty iff
\* ComplexityAnalyzer.detectCycles is greater than 0 iff
\* DiagramParser.detectCircularFlow is true iff
\* RecommendationEngine.detectCircularDependencies is non-empty; and that is
\* so exactly when the graph has a directed cycle.
C29_DetectorsAgree ==
    UniqueIdsValidEndpoints =>
        /\ \A d, e \in DOMAIN result : SaysCyclic(d) <=> SaysCyclic(e)
        /\ \A d \in DOMAIN result : SaysCyclic(d) <=> HasDirectedCycle

\* All four have run on a graph whose only cycle is not reachable from its
\* first node, and all four report it.
C29_Witness ==
    /\ DOMAIN result = Detectors
    /\ UniqueIdsValidEndpoints
    /\ Len(GraphEdges) = 2
    /\ \A e \in Range(GraphEdges) :
           e.source # GraphNodes[1].id /\ e.target # GraphNodes[1].id /\ e.source # e.target
    /\ \A d \in Detectors : SaysCyclic(d)

\* All four have run on an acyclic graph with edges, and none reports a cycle.
C29_WitnessAcyclic ==
    /\ DOMAIN result = Detectors
    /\ Len(GraphEdges) = MaxGraphEdges
    /\ ~HasDirectedCycle
    /\ \A d \in Detectors : ~SaysCyclic(d)

(***************************************************************************)
(* generateRecommendations asked for one diagram with 'all', with each of  *)
(* the six analysis types and with an unrecognised one, one request after  *)
(* the other; result maps each analysis type asked to what was returned.   *)
(***************************************************************************)
SixTypes == <<"performance", "structure", "usability", "security",
              "maintainability", "scalability">>

RequestedTypes == <<"all">> \o SixTypes \o <<"cost">>

InitAnalysisTypes ==
    /\ visualization \in RecommendationInputs
    /\ args = NoArgs
    /\ called = "none"
    /\ result = NoResult

Asked == Cardinality(DOMAIN result)

\* await engine.generateRecommendations(visualization, analysisType)
GenerateForNextType ==
    /\ Asked < Len(RequestedTypes)
    /\ LET analysisType == RequestedTypes[Asked + 1]
       IN  /\ args' = [analysisType |-> analysisType]
           /\ result' = [t \in DOMAIN result \cup {analysisType} |->
                            IF t = analysisType
                            THEN generateRecommendations(visualization, analysisType)
                            ELSE result[t]]
    /\ called' = "generateRecommendations"
    /\ UNCHANGED visualization

NextAnalysisTypes == GenerateForNextType

SpecAnalysisTypes == InitAnalysisTypes /\ [][NextAnalysisTypes]_vars

\* A recommendation without its id and rank.
Unranked(rec) == Rec(rec.category, rec.priority, rec.title, rec.impact, rec.effort)

\* The multiset of the recommendations of a list, ignoring id and rank.
RecommendationBag(recs) ==
    LET bare == [i \in 1..Len(recs) |-> Unranked(recs[i])]
    IN  [r \in Range(bare) |-> Cardinality({i \in 1..Len(bare) : bare[i] = r})]

RECURSIVE ReturnedForSix(_)
ReturnedForSix(i) ==
    IF i > Len(SixTypes) THEN <<>>
    ELSE result[SixTypes[i]].recommendations \o ReturnedForSix(i + 1)

AllTypesAsked == Asked = Len(RequestedTypes)

IsDiagram ==
    visualization.kind # "null" /\ visualization.nodes.kind = "array"
                                /\ visualization.edges.kind = "array"

\* C30: for a diagram, the multiset of recommendations (ignoring id and
\* rank) returned for 'all' is the union of those returned for the six
\* analysis types; every recommendation returned for one of the six types
\* has that type as its category; an unrecognised analysis type yields the
\* empty list.
C30_TypesIndependent ==
    (AllTypesAsked /\ IsDiagram) =>
        /\ \A t \in DOMAIN result : result[t].threw = "no"
        /\ RecommendationBag(result["all"].recommendations)
               = RecommendationBag(ReturnedForSix(1))
        /\ Len(result["all"].recommendations) = Len(ReturnedForSix(1))
        /\ \A i \in 1..Len(SixTypes) :
               \A k \in 1..Len(result[SixTypes[i]].recommendations) :
                   result[SixTypes[i]].recommendations[k].category = SixTypes[i]
        /\ result["cost"].recommendations = <<>>

\* Every type has been asked on a diagram for which each of the six types
\* returns a recommendation.
C30_Witness ==
    /\ AllTypesAsked
    /\ IsDiagram
    /\ \A i \in 1..Len(SixTypes) : Len(result[SixTypes[i]].recommendations) > 0
    /\ Len(result["all"].recommendations) >= 8
    /\ result["cost"].recommendations = <<>>

=============================================================================
